---- MODULE Spec2Model ----
(***************************************************************************)
(* Chef Intelligence: the BM25 lexical index (app/core/retriever.py) and   *)
(* the chunker (app/utils/text_processor.py).                              *)
(*                                                                         *)
(* Text is a sequence of one-character strings.  Real numbers are exact    *)
(* rationals where the code only adds, multiplies and divides; math.log is *)
(* a fixed-point value in units of 1/ScoreScale.  k1 and b are held in     *)
(* quarters (1.5 is 6, 0.75 is 3).                                         *)
(***************************************************************************)
EXTENDS Integers, Sequences, FiniteSets, TLC

VARIABLES
    \* BM25Retriever instance: the constructor's arguments and the fields
    k1_arg, b_arg, k1, b, documents, tokenized_docs, doc_lengths, avg_doc_length, doc_freqs, idf,
    \* the last call made on the instance: its arguments, the passages the index
    \* held when index_documents was called, and what retrieve gave back
    last_op, last_arg, last_prior, last_query, last_top_k, last_result,
    \* a thread inside index_documents (line by line): the line it stands in
    \* front of, the argument of the call and of the call before, the passage
    \* the loop of line 65 is at, what the inner loop under way has still to
    \* visit, the keys of self.doc_freqs in the order of their insertion, and
    \* the calls made so far
    ix_pc, ix_arg, ix_prev, ix_i, ix_todo, ix_keys, ix_calls,
    \* a thread inside retrieve while index_documents runs: the locals of the
    \* call and of the calculate_bm25_score it is in, and the calls made so far
    cr, cr_calls,
    \* TextProcessor instance
    chunk_size, overlap,
    \* a call of char_chunking, one loop iteration per step: the arguments, the
    \* locals, the window starts already used, the iterations made, the result
    cc_pc, cc_text, cc_chunk_size, cc_overlap, cc_cs, cc_ov, cc_start, cc_end,
    cc_chunks, cc_seen, cc_steps, cc_result,
    \* the last call of semantic_chunking: the text, what the encoder is, how
    \* often it was invoked and with which arguments, and what the call gave back
    sc_text, sc_enc, sc_calls, sc_batches, sc_result,
    \* whether the installed NumPy refuses ragged nested sequences (1.24 and later)
    numpy_strict,
    \* the last call of EmbeddingManager.upsert_docs: the documents, batch_size,
    \* the encoder, the size ensure_collection was called with, chunked_items
    \* when the call ended, the batches of points handed to qclient.upsert, and
    \* how the call ended: what it raised and in which line, or the total it
    \* returned
    up_docs, up_batch_size, up_emb, up_ensured, up_items, up_points, up_raised, up_line,
    up_total,
    \* concurrent calls of retrieve, one per reader thread: where the call is,
    \* its arguments, its locals (the length of the range, idx, scores), what it
    \* gave back, and how many calls the thread has finished
    rt_pc, rt_query, rt_top_k, rt_n, rt_idx, rt_scores, rt_result, rt_calls,
    \* whether self.documents is the list object that the caller passed to
    \* index_documents (retriever.py:58 copies nothing)
    documents_shared,
    \* a passage that got more occurrences of a term before the collection was
    \* indexed again: which passage, which term, every passage's score for the
    \* term before, and how many occurrences were added since the last new
    \* collection
    gr_doc, gr_term, gr_before, gr_added,
    \* app/routes/recipe_api.py: the module globals retriever (None, or the
    \* BM25Retriever whose fields are the ones above) and llm_manager, the global
    \* _llm_manager_instance of app/core/llm_manager.py (0 is None, n > 0 the
    \* n-th TinyLlamaManager), the recipe file, whether startup_event has run,
    \* the managers constructed and the loads that failed so far, the managers
    \* handed to handlers, and the answer to the last request
    retriever, llm_manager, llm_manager_instance, recipe_file, started,
    managers_built, load_failures, llm_handed, response

retrieverVars == <<k1, b, documents, tokenized_docs, doc_lengths, avg_doc_length,
                   doc_freqs, idf>>
callVars == <<k1_arg, b_arg, last_op, last_arg, last_prior, last_query, last_top_k, last_result>>
ixVars == <<ix_pc, ix_arg, ix_prev, ix_i, ix_todo, ix_keys, ix_calls>>
crVars == <<cr, cr_calls>>
tpVars == <<chunk_size, overlap>>
ccVars == <<cc_pc, cc_text, cc_chunk_size, cc_overlap, cc_cs, cc_ov, cc_start, cc_end,
            cc_chunks, cc_seen, cc_steps, cc_result>>
scVars == <<sc_text, sc_enc, sc_calls, sc_batches, sc_result, numpy_strict>>
upVars == <<up_docs, up_batch_size, up_emb, up_ensured, up_items, up_points, up_raised,
            up_line, up_total>>
alVars == <<documents_shared>>
apiVars == <<retriever, llm_manager, llm_manager_instance, recipe_file, started,
             managers_built, load_failures, llm_handed, response>>
grVars == <<gr_doc, gr_term, gr_before, gr_added>>
rtVars == <<rt_pc, rt_query, rt_top_k, rt_n, rt_idx, rt_scores, rt_result, rt_calls>>
vars == <<retrieverVars, callVars, ixVars, tpVars, ccVars, scVars, upVars, rtVars, alVars, grVars, apiVars, crVars>>

(***************************************************************************)
(* Bounds of the model.                                                    *)
(***************************************************************************)
MaxDocs == 2          \* passages in a generated collection
MaxTopK == 2          \* largest explicit top_k
ScoreScale == 100000  \* fixed-point unit of math.log: 1/ScoreScale
MaxChunk == 3         \* largest small chunk_size
MaxOverlap == 3       \* largest small overlap
MaxGrow == 2          \* occurrences of a term added to the passages of one collection
MaxLoadFailures == 2  \* constructions of TinyLlamaManager that fail before one succeeds
MaxIndexCalls == 2    \* calls of index_documents while another thread retrieves
MaxRetrieveCalls == 1 \* calls of retrieve while another thread indexes

(***************************************************************************)
(* Program constants.                                                      *)
(***************************************************************************)
BM25_K1 == 6          \* Config.BM25_K1 = 1.5, in quarters
BM25_B == 3           \* Config.BM25_B = 0.75, in quarters
TOP_K_RETRIEVAL == 3  \* Config.TOP_K_RETRIEVAL
DEFAULT_CHUNK_SIZE == 1000  \* TextProcessor.__init__, chunk_size
DEFAULT_OVERLAP == 200      \* TextProcessor.__init__, overlap
SIMILARITY_THRESHOLD == 65  \* semantic_chunking, similarity_threshold 0.65, in hundredths
SMALL_CHUNK == 40           \* semantic_chunking, len(c) < 40
\* an optional argument: None, or Some(v)
None == <<>>
Some(v) == <<v>>

(***************************************************************************)
(* Characters.                                                             *)
(***************************************************************************)
LowerSeq == <<"a","b","c","d","e","f","g","h","i","j","k","l","m",
              "n","o","p","q","r","s","t","u","v","w","x","y","z">>
UpperSeq == <<"A","B","C","D","E","F","G","H","I","J","K","L","M",
              "N","O","P","Q","R","S","T","U","V","W","X","Y","Z">>
Range(s) == {s[i] : i \in DOMAIN s}
Digits == {"0","1","2","3","4","5","6","7","8","9"}
\* \w of the re module on this alphabet
WordChars == Range(LowerSeq) \cup Range(UpperSeq) \cup Digits \cup {"_"}
\* The characters of the model are the ASCII characters.
\* '\x0b', '\x1c', '\x1d', '\x1e' and '\x1f', which have no escape in a string
VerticalTab == ""
FileSeparator == ""
GroupSeparator == ""
RecordSeparator == ""
UnitSeparator == ""
\* \s of the re module on a str pattern, and what str.strip() removes: the
\* characters c with c.isspace()
Whitespace ==
    {" ", "\t", "\n", "\r", "\f", VerticalTab,
     FileSeparator, GroupSeparator, RecordSeparator, UnitSeparator}

\* str.lower(), one character
LowerChar(c) ==
    IF c \in Range(UpperSeq)
    THEN LowerSeq[CHOOSE i \in DOMAIN UpperSeq : UpperSeq[i] = c]
    ELSE c

\* str.lower()
Lower(text) == [i \in DOMAIN text |-> LowerChar(text[i])]

\* the positions of `text`, in order
Indices(text) == [i \in DOMAIN text |-> i]
SetMin(S) == CHOOSE x \in S : \A y \in S : x <= y
SetMax(S) == CHOOSE x \in S : \A y \in S : x >= y

\* re.findall(r'\b\w+\b', text): the maximal runs of word characters, in order
FindWords(text) ==
    LET IsStart(i) == text[i] \in WordChars /\ (i = 1 \/ text[i - 1] \notin WordChars)
        IsEnd(i) == text[i] \in WordChars /\ (i = Len(text) \/ text[i + 1] \notin WordChars)
        starts == SelectSeq(Indices(text), IsStart)
        ends == SelectSeq(Indices(text), IsEnd)
    IN [w \in DOMAIN starts |-> SubSeq(text, starts[w], ends[w])]

\* the tokens keep the letter case of the text
tokenizeKeepingCase(text) == FindWords(text)
\* BM25Retriever.tokenize
tokenize(text) == FindWords(Lower(text))

(***************************************************************************)
(* Numbers.                                                                *)
(***************************************************************************)
RECURSIVE GCD(_, _)
GCD(x, y) == IF y = 0 THEN x ELSE GCD(y, x % y)

\* the quotient n/d (d > 0) as a reduced fraction; 0 is 0/1
Rat(n, d) == LET g == GCD(n, d) IN [num |-> n \div g, den |-> d \div g]

RECURSIVE Sum(_)
Sum(s) == IF s = <<>> THEN 0 ELSE s[1] + Sum(Tail(s))

\* the terms 2*z^(2k+1)/(2k+1) of ln(p/q), z = (p-q)/(p+q), u = (p-q)^2, v = (p+q)^2
RECURSIVE LogSeries(_, _, _, _, _)
LogSeries(t, k, u, v, acc) ==
    IF t \in {0, -1}
    THEN acc
    ELSE LogSeries((t * u) \div v, k + 1, u, v, acc + t \div (2 * k + 1))

\* math.log(p/q) for p, q > 0, in units of 1/ScoreScale
Log(p, q) ==
    LogSeries((2 * ScoreScale * (p - q)) \div (p + q), 0,
              (p - q) * (p - q), (p + q) * (p + q), 0)

(***************************************************************************)
(* BM25Retriever.  `self` is the record of the instance's fields.          *)
(***************************************************************************)
EmptyDict == [t \in {} |-> 0]

\* retriever.py:24-31, the fields after __init__; k1 and b are `arg or default`
NewRetriever(k1_given, b_given) ==
    [k1 |-> IF k1_given \in {None, Some(0)} THEN BM25_K1 ELSE k1_given[1],
     b |-> IF b_given \in {None, Some(0)} THEN BM25_B ELSE b_given[1],
     documents |-> <<>>,
     doc_lengths |-> <<>>,
     avg_doc_length |-> Rat(0, 1),
     doc_freqs |-> EmptyDict,
     idf |-> EmptyDict,
     tokenized_docs |-> <<>>]

\* every occurrence of a token counts
CountPassageOccurrences(freqs, tokenized_doc) ==
    [t \in DOMAIN freqs \cup Range(tokenized_doc) |->
        (IF t \in DOMAIN freqs THEN freqs[t] ELSE 0)
        + Cardinality({i \in DOMAIN tokenized_doc : tokenized_doc[i] = t})]

\* retriever.py:66-68, one passage: every distinct token counts once
CountPassage(freqs, tokenized_doc) ==
    LET unique_tokens == Range(tokenized_doc)
    IN [t \in DOMAIN freqs \cup unique_tokens |->
           (IF t \in DOMAIN freqs THEN freqs[t] ELSE 0)
           + (IF t \in unique_tokens THEN 1 ELSE 0)]

\* retriever.py:65-68, the loop over tokenized_docs from passage i on
RECURSIVE CountPassages(_, _, _)
CountPassages(freqs, tdocs, i) ==
    IF i > Len(tdocs)
    THEN freqs
    ELSE CountPassages(CountPassage(freqs, tdocs[i]), tdocs, i + 1)

\* the count continues from the table of the previous call
FreshFreqsKept(self) == self.doc_freqs

\* retriever.py:64, the table the count starts from
FreshFreqs(self) == EmptyDict

\* the classic Robertson/Sparck-Jones idf, without the + 1.0
IdfOfClassic(num_docs, freq) == Log(2 * num_docs - 2 * freq + 1, 2 * freq + 1)

\* ln(N/df), which is 0 for a token of every passage
IdfOfPlain(num_docs, freq) == Log(num_docs, freq)

\* retriever.py:74, math.log((num_docs - freq + 0.5) / (freq + 0.5) + 1.0)
IdfOf(num_docs, freq) ==
    Log((2 * num_docs - 2 * freq + 1) + (2 * freq + 1), 2 * freq + 1)

\* len(set(doc)) in place of len(doc)
DocLengthsDistinct(tdocs) == [i \in DOMAIN tdocs |-> Cardinality(Range(tdocs[i]))]

\* retriever.py:60
DocLengths(tdocs) == [i \in DOMAIN tdocs |-> Len(tdocs[i])]

\* retriever.py:61
AvgLength(lengths) ==
    IF lengths # <<>> THEN Rat(Sum(lengths), Len(lengths)) ELSE Rat(0, 1)

\* BM25Retriever.index_documents: the fields after the call
index_documents(self, docs) ==
    LET tdocs == [i \in DOMAIN docs |-> tokenize(docs[i])]
        lengths == DocLengths(tdocs)
        freqs == CountPassages(FreshFreqs(self), tdocs, 1)
        num_docs == Len(docs)
    IN [self EXCEPT
           !.documents = docs,
           !.tokenized_docs = tdocs,
           !.doc_lengths = lengths,
           !.avg_doc_length = AvgLength(lengths),
           !.doc_freqs = freqs,
           !.idf = [t \in DOMAIN freqs |-> IdfOf(num_docs, freqs[t])]]

\* Counter(doc_tokens).get(token, 0)
TermFreq(doc_tokens, token) ==
    Cardinality({i \in DOMAIN doc_tokens : doc_tokens[i] = token})

OK == "returned"
ZeroDivisionError == "ZeroDivisionError"
IndexError == "IndexError"

\* the term frequency enters the denominator squared
DenominatorSquared16(self, term_freq, doc_length) ==
    LET avg == self.avg_doc_length
    IN 16 * term_freq * term_freq * avg.num
       + self.k1 * ((4 - self.b) * avg.num + self.b * doc_length * avg.den)

\* retriever.py:105, the denominator times 16 * avg.num (avg = avg.num / avg.den)
Denominator16(self, term_freq, doc_length) ==
    LET avg == self.avg_doc_length
    IN 16 * term_freq * avg.num
       + self.k1 * ((4 - self.b) * avg.num + self.b * doc_length * avg.den)

\* retriever.py:104, the numerator times 16 * avg.num
Numerator16(self, term_freq) ==
    term_freq * (self.k1 + 4) * 4 * self.avg_doc_length.num

KeyError == "KeyError"

\* self.idf[token] is read without the test `token in self.idf`
RECURSIVE ScoreTokensUnguarded(_, _, _, _, _)
ScoreTokensUnguarded(self, query_tokens, j, doc_idx, score) ==
    IF j > Len(query_tokens)
    THEN [raised |-> OK, value |-> score]
    ELSE LET token == query_tokens[j]
             term_freq == TermFreq(self.tokenized_docs[doc_idx], token)
             doc_length == self.doc_lengths[doc_idx]
             den == Denominator16(self, term_freq, doc_length)
         IN IF token \notin DOMAIN self.idf
            THEN [raised |-> KeyError, value |-> 0]
            ELSE IF self.avg_doc_length.num = 0 \/ den = 0
                 THEN [raised |-> ZeroDivisionError, value |-> 0]
                 ELSE ScoreTokensUnguarded(self, query_tokens, j + 1, doc_idx,
                         score + (self.idf[token] * Numerator16(self, term_freq)) \div den)

\* retriever.py:96-107, the loop over query_tokens from token j on
RECURSIVE ScoreTokens(_, _, _, _, _)
ScoreTokens(self, query_tokens, j, doc_idx, score) ==
    IF j > Len(query_tokens)
    THEN [raised |-> OK, value |-> score]
    ELSE LET token == query_tokens[j]
             term_freq == TermFreq(self.tokenized_docs[doc_idx], token)
             doc_length == self.doc_lengths[doc_idx]
             den == Denominator16(self, term_freq, doc_length)
         IN IF token \notin DOMAIN self.idf
            THEN ScoreTokens(self, query_tokens, j + 1, doc_idx, score)
            ELSE IF self.avg_doc_length.num = 0 \/ den = 0
                 THEN [raised |-> ZeroDivisionError, value |-> 0]
                 ELSE ScoreTokens(self, query_tokens, j + 1, doc_idx,
                         score + (self.idf[token] * Numerator16(self, term_freq)) \div den)

\* BM25Retriever.calculate_bm25_score (doc_idx counts from 1)
calculate_bm25_score(self, query_tokens, doc_idx) ==
    IF doc_idx > Len(self.tokenized_docs) \/ doc_idx > Len(self.doc_lengths)
    THEN [raised |-> IndexError, value |-> 0]
    ELSE ScoreTokens(self, query_tokens, 1, doc_idx, 0)

\* range(len(self.documents) + 1)
RECURSIVE ScoreAllPastEnd(_, _, _, _)
ScoreAllPastEnd(self, query_tokens, idx, scores) ==
    IF idx > Len(self.documents) + 1
    THEN [raised |-> OK, value |-> scores]
    ELSE LET r == calculate_bm25_score(self, query_tokens, idx)
         IN IF r.raised # OK
            THEN [raised |-> r.raised, value |-> <<>>]
            ELSE ScoreAllPastEnd(self, query_tokens, idx + 1,
                                 Append(scores, [idx |-> idx, score |-> r.value]))

\* retriever.py:128-131, the scores of passages idx.. in index order, or the
\* first exception
RECURSIVE ScoreAll(_, _, _, _)
ScoreAll(self, query_tokens, idx, scores) ==
    IF idx > Len(self.documents)
    THEN [raised |-> OK, value |-> scores]
    ELSE LET r == calculate_bm25_score(self, query_tokens, idx)
         IN IF r.raised # OK
            THEN [raised |-> r.raised, value |-> <<>>]
            ELSE ScoreAll(self, query_tokens, idx + 1,
                          Append(scores, [idx |-> idx, score |-> r.value]))

\* x goes before the first element it beats or ties with: ties come out reversed
RECURSIVE InsertDescTiesFirst(_, _)
InsertDescTiesFirst(sorted, x) ==
    IF sorted = <<>>
    THEN <<x>>
    ELSE IF x.score >= sorted[1].score
         THEN <<x>> \o sorted
         ELSE <<sorted[1]>> \o InsertDescTiesFirst(Tail(sorted), x)

\* x goes before the first element of the sorted list that it beats
RECURSIVE InsertDesc(_, _)
InsertDesc(sorted, x) ==
    IF sorted = <<>>
    THEN <<x>>
    ELSE IF x.score > sorted[1].score
         THEN <<x>> \o sorted
         ELSE <<sorted[1]>> \o InsertDesc(Tail(sorted), x)

\* retriever.py:134, scores.sort(key=score, reverse=True): stable, descending
RECURSIVE SortDesc(_, _, _)
SortDesc(scores, i, sorted) ==
    IF i > Len(scores)
    THEN sorted
    ELSE SortDesc(scores, i + 1, InsertDesc(sorted, scores[i]))

\* seq[:n] of Python
Slice(seq, n) ==
    LET m == IF n >= 0 THEN n ELSE Len(seq) + n
        stop == IF m < 0 THEN 0 ELSE IF m > Len(seq) THEN Len(seq) ELSE m
    IN SubSeq(seq, 1, stop)

\* BM25Retriever.retrieve: what the call raises, or the list it returns
retrieve(self, query, top_k) ==
    LET k == IF top_k = None THEN TOP_K_RETRIEVAL ELSE top_k[1]
        query_tokens == tokenize(query)
        scored == ScoreAll(self, query_tokens, 1, <<>>)
        top_results == Slice(SortDesc(scored.value, 1, <<>>), k)
    IN IF scored.raised # OK
       THEN scored
       ELSE [raised |-> OK,
             value |-> [i \in DOMAIN top_results |->
                           [doc |-> self.documents[top_results[i].idx],
                            score |-> top_results[i].score]]]

(***************************************************************************)
(* TextProcessor.  `self` is the record of the instance's fields.          *)
(***************************************************************************)
NeverReturns == "never returns"
ValueError == "ValueError"
RuntimeError == "RuntimeError"
AttributeError == "AttributeError"

\* the text is taken as it is
StripNothing(text) == text

\* str.strip()
Strip(text) ==
    LET kept == {i \in DOMAIN text : text[i] \notin Whitespace}
    IN IF kept = {} THEN <<>> ELSE SubSeq(text, SetMin(kept), SetMax(kept))

\* text[start:end] for 0 <= start <= end <= len(text)
Substring(text, start, end) == SubSeq(text, start + 1, end)

\* [c for c in chunks if c]
NonEmpty(chunks) == SelectSeq(chunks, LAMBDA c : c # <<>>)

\* text_processor.py:53-54, `argument or self.field`
Effective(given, field) == IF given \in {None, Some(0)} THEN field ELSE given[1]

\* text_processor.py:59
WindowEnd(start, cs, n) == IF start + cs <= n THEN start + cs ELSE n

\* text_processor.py:63-65
NextStart(end, ov) == IF end - ov < 0 THEN 0 ELSE end - ov

\* text_processor.py:58-66, the loop from `start` on, as a function: the list
\* returned, or NeverReturns when a window start comes back (the loop's only
\* control variable is start, so it then repeats for ever)
RECURSIVE WindowLoop(_, _, _, _, _, _)
WindowLoop(text, cs, ov, start, chunks, seen) ==
    LET n == Len(text)
        end == WindowEnd(start, cs, n)
        appended == Append(chunks, Strip(Substring(text, start, end)))
    IN IF ~(start < n)
       THEN [raised |-> OK, value |-> NonEmpty(chunks)]
       ELSE IF start \in seen
            THEN [raised |-> NeverReturns, value |-> <<>>]
            ELSE IF end = n
                 THEN [raised |-> OK, value |-> NonEmpty(appended)]
                 ELSE WindowLoop(text, cs, ov, NextStart(end, ov), appended,
                                 seen \cup {start})

\* TextProcessor.char_chunking
char_chunking(self, text, chunk_size_given, overlap_given) ==
    IF text = <<>>
    THEN [raised |-> OK, value |-> <<>>]
    ELSE WindowLoop(text, Effective(chunk_size_given, self.chunk_size),
                    Effective(overlap_given, self.overlap), 0, <<>>, {})

\* re.sub(r"\s+", " ", text): of every run of whitespace the first character
\* stays, as a space
CollapseSpaces(text) ==
    LET Stays(i) == text[i] \notin Whitespace \/ i = 1 \/ text[i - 1] \notin Whitespace
        kept == SelectSeq(Indices(text), Stays)
    IN [j \in DOMAIN kept |->
           IF text[kept[j]] \in Whitespace THEN " " ELSE text[kept[j]]]

\* TextProcessor.clean_text
clean_text(text) == Strip(CollapseSpaces(text))

SentenceEnd == {".", "!", "?"}

\* re.split(r'(?<=[.!?])\s+', text): a run of whitespace that directly follows
\* '.', '!' or '?' separates two parts
SplitAfterEnd(text) ==
    LET IsStart(i) == text[i] \in Whitespace /\ i > 1 /\ text[i - 1] \in SentenceEnd
        starts == SelectSeq(Indices(text), IsStart)
        RunEnd(i) == SetMin({j \in i..Len(text) :
                                j = Len(text) \/ text[j + 1] \notin Whitespace})
        ends == [p \in DOMAIN starts |-> RunEnd(starts[p])]
        m == Len(starts)
    IN [p \in 1..(m + 1) |->
           SubSeq(text, IF p = 1 THEN 1 ELSE ends[p - 1] + 1,
                        IF p = m + 1 THEN Len(text) ELSE starts[p] - 1)]

\* TextProcessor.split_into_sentences
split_into_sentences(text) ==
    LET parts == SplitAfterEnd(text)
    IN NonEmpty([i \in DOMAIN parts |-> Strip(parts[i])])

\* " ".join(strings)
RECURSIVE Join(_)
Join(strings) ==
    IF strings = <<>>
    THEN <<>>
    ELSE IF Len(strings) = 1
         THEN strings[1]
         ELSE strings[1] \o <<" ">> \o Join(Tail(strings))

\* what encoder_fn(sents) returns.  A "matrix" encoder returns a list of
\* len(sents) + extra rows, row i being palette[i] (cyclically); the others
\* return a scalar or None ("scalar"), a flat list ("list"), a list of
\* matrices ("cube"), or rows of unequal length ("ragged").
EncoderReturn(encoder, sents) ==
    IF encoder.kind = "matrix"
    THEN [kind |-> "matrix",
          rows |-> [i \in 1..(Len(sents) + encoder.extra) |->
                       encoder.palette[((i - 1) % Len(encoder.palette)) + 1]]]
    ELSE [kind |-> encoder.kind, rows |-> <<>>]

\* encoder_fn(sents) raises instead of returning (an encoder of kind "raises")
EncoderRaises(encoder) == encoder.kind = "raises"

\* np.asarray(emb): the number of dimensions and the rows, or ValueError for
\* rows of unequal length when NumPy refuses them (it then no longer builds a
\* one-dimensional array of objects)
AsArray(emb, strict) ==
    CASE emb.kind = "matrix" -> [raised |-> OK, ndim |-> 2, rows |-> emb.rows]
      [] emb.kind = "scalar" -> [raised |-> OK, ndim |-> 0, rows |-> <<>>]
      [] emb.kind = "list" -> [raised |-> OK, ndim |-> 1, rows |-> <<>>]
      [] emb.kind = "cube" -> [raised |-> OK, ndim |-> 3, rows |-> <<>>]
      [] emb.kind = "ragged" ->
            IF strict
            THEN [raised |-> ValueError, ndim |-> 0, rows |-> <<>>]
            ELSE [raised |-> OK, ndim |-> 1, rows |-> <<>>]

Dot(u, v) == Sum([i \in DOMAIN u |-> u[i] * v[i]])

\* text_processor.py:108-115: whether the cosine of rows u and v is below
\* similarity_threshold.  A row of norm 0 is divided by 1e-8 and stays the zero
\* vector, so its cosine is 0.
BelowThreshold(u, v) ==
    LET d == Dot(u, v)
    IN IF d <= 0
       THEN TRUE
       ELSE 100 * 100 * d * d
               < SIMILARITY_THRESHOLD * SIMILARITY_THRESHOLD * Dot(u, u) * Dot(v, v)

\* sentence i is compared with the first sentence of the running chunk
RECURSIVE GroupSentencesAgainstChunkStart(_, _, _, _, _)
GroupSentencesAgainstChunkStart(sents, rows, i, current_chunk, chunks) ==
    IF i > Len(sents)
    THEN Append(chunks, Join(current_chunk))
    ELSE IF BelowThreshold(rows[i - Len(current_chunk)], rows[i])
         THEN GroupSentencesAgainstChunkStart(sents, rows, i + 1, <<sents[i]>>,
                                              Append(chunks, Join(current_chunk)))
         ELSE GroupSentencesAgainstChunkStart(sents, rows, i + 1,
                                              Append(current_chunk, sents[i]), chunks)

\* text_processor.py:113-121, the grouping loop from sentence i on
RECURSIVE GroupSentences(_, _, _, _, _)
GroupSentences(sents, rows, i, current_chunk, chunks) ==
    IF i > Len(sents)
    THEN Append(chunks, Join(current_chunk))
    ELSE IF BelowThreshold(rows[i - 1], rows[i])
         THEN GroupSentences(sents, rows, i + 1, <<sents[i]>>,
                             Append(chunks, Join(current_chunk)))
         ELSE GroupSentences(sents, rows, i + 1, Append(current_chunk, sents[i]), chunks)

\* no chunk is merged
MergeSmallKeepsAll(chunks, i, merged) == merged \o SubSeq(chunks, i, Len(chunks))

\* a chunk of fewer than 40 characters is left out
RECURSIVE MergeSmallDropsSmall(_, _, _)
MergeSmallDropsSmall(chunks, i, merged) ==
    IF i > Len(chunks)
    THEN merged
    ELSE IF merged = <<>>
         THEN MergeSmallDropsSmall(chunks, i + 1, <<chunks[i]>>)
         ELSE IF Len(chunks[i]) < SMALL_CHUNK
              THEN MergeSmallDropsSmall(chunks, i + 1, merged)
              ELSE MergeSmallDropsSmall(chunks, i + 1, Append(merged, chunks[i]))

\* text_processor.py:124-131, the merge loop from chunk i on
RECURSIVE MergeSmall(_, _, _)
MergeSmall(chunks, i, merged) ==
    IF i > Len(chunks)
    THEN merged
    ELSE IF merged = <<>>
         THEN MergeSmall(chunks, i + 1, <<chunks[i]>>)
         ELSE IF Len(chunks[i]) < SMALL_CHUNK
              THEN MergeSmall(chunks, i + 1,
                      [merged EXCEPT ![Len(merged)] = @ \o <<" ">> \o chunks[i]])
              ELSE MergeSmall(chunks, i + 1, Append(merged, chunks[i]))

\* the encoder is invoked for every sentence on its own
semantic_chunking_per_sentence(self, text, encoder, strict) ==
    LET cleaned == clean_text(text)
        sents == split_into_sentences(cleaned)
        emb == AsArray(EncoderReturn(encoder, sents), strict)
        fallback == char_chunking(self, cleaned, None, None)
        batches == [i \in DOMAIN sents |-> <<sents[i]>>]
    IN IF cleaned = <<>> \/ Len(sents) = 0
       THEN [raised |-> OK, value |-> <<>>, calls |-> 0, batches |-> <<>>]
       ELSE IF emb.raised # OK
            THEN [raised |-> emb.raised, value |-> <<>>, calls |-> Len(sents),
                  batches |-> batches]
            ELSE IF emb.ndim # 2 \/ Len(emb.rows) # Len(sents)
                 THEN [raised |-> fallback.raised, value |-> fallback.value,
                       calls |-> Len(sents), batches |-> batches]
                 ELSE [raised |-> OK,
                       value |-> MergeSmall(GroupSentences(sents, emb.rows, 2,
                                                           <<sents[1]>>, <<>>),
                                            1, <<>>),
                       calls |-> Len(sents), batches |-> batches]

\* TextProcessor.semantic_chunking: what the call raises or returns, how often
\* it invoked the encoder, and the argument of every invocation
semantic_chunking(self, text, encoder, strict) ==
    LET cleaned == clean_text(text)
        sents == split_into_sentences(cleaned)
        emb == AsArray(EncoderReturn(encoder, sents), strict)
        fallback == char_chunking(self, cleaned, None, None)
    IN IF cleaned = <<>> \/ Len(sents) = 0
       THEN [raised |-> OK, value |-> <<>>, calls |-> 0, batches |-> <<>>]
       ELSE IF Len(sents) = 1
            THEN [raised |-> OK, value |-> <<sents[1]>>, calls |-> 0, batches |-> <<>>]
            ELSE IF EncoderRaises(encoder)
                 THEN [raised |-> RuntimeError, value |-> <<>>, calls |-> 1,
                       batches |-> <<sents>>]
            ELSE IF emb.raised # OK
                 THEN [raised |-> emb.raised, value |-> <<>>, calls |-> 1,
                       batches |-> <<sents>>]
                 ELSE IF emb.ndim # 2 \/ Len(emb.rows) # Len(sents)
                      THEN [raised |-> fallback.raised, value |-> fallback.value,
                            calls |-> 1, batches |-> <<sents>>]
                      ELSE [raised |-> OK,
                            value |-> MergeSmall(GroupSentences(sents, emb.rows, 2,
                                                                <<sents[1]>>, <<>>),
                                                 1, <<>>),
                            calls |-> 1, batches |-> <<sents>>]

(***************************************************************************)
(* EmbeddingManager.upsert_docs.  A document is a record of its text and   *)
(* its metadata dict.  The encoder stands for self.emb.encode: what it     *)
(* does with "ping" (field ping: Some(n) for a vector of n numbers, None   *)
(* when it raises) and what it does with a list of strings (kind), behind  *)
(* encoder_fn (embeddings.py:59-62, whose own np.asarray gives the array   *)
(* or the exception that the one inside semantic_chunking gives) and in    *)
(* line 83.  Of a point the random id is left out.                         *)
(***************************************************************************)
\* only ValueError is caught
ChunksOfCatchingValueError(self, text, emb, strict) ==
    LET clean == clean_text(text)
        r == semantic_chunking(self, clean, emb, strict)
    IN IF r.raised = ValueError
       THEN char_chunking(self, clean, None, None)
       ELSE [raised |-> r.raised, value |-> r.value]

\* embeddings.py:56-68: the chunks of one document.  `except Exception`
\* catches whatever semantic_chunking raises; a call that never returns is
\* not an exception.
ChunksOf(self, text, emb, strict) ==
    LET clean == clean_text(text)
        r == semantic_chunking(self, clean, emb, strict)
    IN IF r.raised \notin {OK, NeverReturns}
       THEN char_chunking(self, clean, None, None)
       ELSE [raised |-> r.raised, value |-> r.value]

\* embeddings.py:55, d.get("metadata", {}) or {}
MetaOf(d) == IF "metadata" \in DOMAIN d THEN d.metadata ELSE EmptyDict

\* embeddings.py:71, meta.get("row_id", meta.get("id", row_idx))
RowId(meta, row_idx) ==
    IF "row_id" \in DOMAIN meta
    THEN meta["row_id"]
    ELSE IF "id" \in DOMAIN meta THEN meta["id"] ELSE row_idx

\* embeddings.py:72-76, the items of one document's chunks
ItemsOf(meta, row_idx, chunks) ==
    [c \in DOMAIN chunks |->
        [row_id |-> RowId(meta, row_idx), chunk_id |-> c - 1, chunk_text |-> chunks[c],
         meta |-> [key \in DOMAIN meta \cup {"row_id", "chunk_id"} |->
                     IF key = "row_id" THEN RowId(meta, row_idx)
                     ELSE IF key = "chunk_id" THEN c - 1 ELSE meta[key]]]]

\* embeddings.py:43, the documents that have a text
WithText(docs) == SelectSeq(docs, LAMBDA d : "text" \in DOMAIN d /\ d.text # <<>>)

\* embeddings.py:53-76, the loop from row i (counted from 1; row_idx = i - 1) on
RECURSIVE BuildItems(_, _, _, _, _, _)
BuildItems(self, docs, i, emb, strict, items) ==
    IF i > Len(docs)
    THEN [raised |-> OK, value |-> items]
    ELSE LET chunks == ChunksOf(self, docs[i].text, emb, strict)
         IN IF chunks.raised # OK
            THEN [raised |-> chunks.raised, value |-> items]
            ELSE BuildItems(self, docs, i + 1, emb, strict,
                            items \o ItemsOf(MetaOf(docs[i]), i - 1, chunks.value))

\* EmbeddingManager.batched(seq, size): buf is yielded when it holds `size`
\* items, and what is left of it at the end
RECURSIVE batched(_, _, _, _)
batched(seq, size, buf, yielded) ==
    IF seq = <<>>
    THEN IF buf # <<>> THEN Append(yielded, buf) ELSE yielded
    ELSE IF Len(buf) + 1 = size
         THEN batched(Tail(seq), size, <<>>, Append(yielded, Append(buf, Head(seq))))
         ELSE batched(Tail(seq), size, Append(buf, Head(seq)), yielded)

\* embeddings.py:90, {"page_content": txt, **meta}
Payload(txt, meta) ==
    [key \in DOMAIN meta \cup {"page_content"} |->
        IF key \in DOMAIN meta THEN meta[key] ELSE txt]

\* embeddings.py:81-92, the points of one batch: encode raises (line 83), or
\* returns rows, or a list whose elements have no tolist() (line 89)
PointsOf(batch, emb) ==
    LET texts == [i \in DOMAIN batch |-> batch[i].chunk_text]
        vecs == EncoderReturn(emb, texts)
    IN CASE EncoderRaises(emb) -> [raised |-> RuntimeError, line |-> 83, value |-> <<>>]
         [] emb.kind = "matrix" ->
               [raised |-> OK, line |-> 0,
                value |-> [i \in DOMAIN batch |->
                             [vector |-> vecs.rows[i],
                              payload |-> Payload(batch[i].chunk_text, batch[i].meta)]]]
         [] emb.kind \in {"list", "ragged"} ->
               [raised |-> AttributeError, line |-> 89, value |-> <<>>]

\* embeddings.py:79-97, the loop from batch i on: the batches handed to
\* qclient.upsert and the total, or what was raised
RECURSIVE UpsertBatches(_, _, _, _, _)
UpsertBatches(batches, i, emb, sent, total) ==
    IF i > Len(batches)
    THEN [raised |-> OK, line |-> 0, points |-> sent, total |-> Some(total)]
    ELSE LET points == PointsOf(batches[i], emb)
         IN IF points.raised # OK
            THEN [raised |-> points.raised, line |-> points.line, points |-> sent,
                  total |-> None]
            ELSE UpsertBatches(batches, i + 1, emb, Append(sent, points.value),
                               total + Len(batches[i]))

\* EmbeddingManager.upsert_docs: how the call ends (what it raised and where,
\* or the total), the size given to ensure_collection (which catches what its
\* own calls raise), chunked_items, and the batches upserted
upsert_docs(self, docs, batch_size, emb, strict) ==
    LET rows == WithText(docs)
        Ends(raised, line, ensured, items, points, total) ==
            [raised |-> raised, line |-> line, ensured |-> ensured, items |-> items,
             points |-> points, total |-> total]
        \* lines 79-97 on the chunked_items that lines 52-76 built
        Upserts(items) ==
            CHOOSE r \in {Ends(upserted.raised, upserted.line, emb.ping, items,
                               upserted.points, upserted.total) :
                             upserted \in {UpsertBatches(batched(items, batch_size, <<>>, <<>>),
                                                         1, emb, <<>>, 0)}} : TRUE
        \* lines 52-97 once line 48 has returned
        Chunks(built) ==
            IF built.raised # OK
            THEN Ends(built.raised, 65, emb.ping, built.value, <<>>, None)
            ELSE Upserts(built.value)
    IN IF rows = <<>>
       THEN Ends(OK, 0, None, <<>>, <<>>, Some(0))
       ELSE IF emb.ping = None
            THEN Ends(RuntimeError, 48, None, <<>>, <<>>, None)
            ELSE CHOOSE r \in {Chunks(built) :
                                 built \in {BuildItems(self, rows, 1, emb, strict, <<>>)}} : TRUE

(***************************************************************************)
(* Inputs.                                                                 *)
(***************************************************************************)
\* test_retriever.py:13-17
Carbonara ==
    <<"P","a","s","t","a"," ","c","a","r","b","o","n","a","r","a"," ","i","s",
    " ","m","a","d","e"," ","w","i","t","h"," ","e","g","g","s"," ","a","n",
    "d"," ","c","h","e","e","s","e">>
Biryani ==
    <<"B","i","r","y","a","n","i"," ","r","e","q","u","i","r","e","s"," ","r",
    "i","c","e"," ","a","n","d"," ","a","r","o","m","a","t","i","c"," ","s",
    "p","i","c","e","s">>
Cake ==
    <<"C","h","o","c","o","l","a","t","e"," ","c","a","k","e"," ","n","e","e",
    "d","s"," ","c","o","c","o","a"," ","p","o","w","d","e","r"," ","a","n",
    "d"," ","s","u","g","a","r">>
TestDocs == <<Carbonara, Biryani, Cake>>

\* " !", "a", "B! b a"
PassagePool == {<<" ","!">>, <<"a">>, <<"B","!"," ","b"," ","a">>}

RECURSIVE SeqsUpTo(_, _)
SeqsUpTo(S, n) ==
    IF n = 0
    THEN {<<>>}
    ELSE LET shorter == SeqsUpTo(S, n - 1)
         IN shorter \cup {Append(s, x) : s \in {t \in shorter : Len(t) = n - 1}, x \in S}

Collections == SeqsUpTo(PassagePool, MaxDocs) \cup {TestDocs}

\* "", "?!", "a", "B a", "c a", "pasta eggs"
PastaEggs == <<"p","a","s","t","a"," ","e","g","g","s">>
Queries == {<<>>, <<"?","!">>, <<"a">>, <<"B"," ","a">>, <<"c"," ","a">>, PastaEggs}

TopKArgs == {None} \cup {Some(n) : n \in 0..MaxTopK}
\* BM25Retriever(), (k1=0, b=0), (b=1.0), (k1=2.0, b=1.0), in quarters
CtorArgs == {<<None, None>>, <<Some(0), Some(0)>>, <<None, Some(4)>>, <<Some(8), Some(4)>>}

(***************************************************************************)
(* The instance used by one caller at a time.                              *)
(***************************************************************************)
Self ==
    [k1 |-> k1, b |-> b, documents |-> documents, doc_lengths |-> doc_lengths,
     avg_doc_length |-> avg_doc_length, doc_freqs |-> doc_freqs, idf |-> idf,
     tokenized_docs |-> tokenized_docs]

SetSelf(self) ==
    /\ k1' = self.k1
    /\ b' = self.b
    /\ documents' = self.documents
    /\ doc_lengths' = self.doc_lengths
    /\ avg_doc_length' = self.avg_doc_length
    /\ doc_freqs' = self.doc_freqs
    /\ idf' = self.idf
    /\ tokenized_docs' = self.tokenized_docs

HasFields(self) ==
    /\ k1 = self.k1
    /\ b = self.b
    /\ documents = self.documents
    /\ doc_lengths = self.doc_lengths
    /\ avg_doc_length = self.avg_doc_length
    /\ doc_freqs = self.doc_freqs
    /\ idf = self.idf
    /\ tokenized_docs = self.tokenized_docs

NoResult == [raised |-> OK, value |-> <<>>]

IxIdle ==
    /\ ix_pc = "idle"
    /\ ix_arg = <<>>
    /\ ix_prev = <<>>
    /\ ix_i = 0
    /\ ix_todo = <<>>
    /\ ix_keys = <<>>
    /\ ix_calls = 0

\* no retrieve call under way: the frame of the call does not exist
NoFrame ==
    [pc |-> "idle", query |-> <<>>, query_tokens |-> <<>>, n |-> 0, idx |-> 0,
     scores |-> <<>>, doc_tokens |-> <<>>, doc_length |-> 0, j |-> 0, score |-> 0,
     idf_score |-> 0, top_results |-> <<>>, results |-> <<>>]

CrIdle == cr = NoFrame /\ cr_calls = 0

CcIdle ==
    /\ cc_pc = "idle"
    /\ cc_text = <<>>
    /\ cc_chunk_size = None
    /\ cc_overlap = None
    /\ cc_cs = 0
    /\ cc_ov = 0
    /\ cc_start = 0
    /\ cc_end = 0
    /\ cc_chunks = <<>>
    /\ cc_seen = {}
    /\ cc_steps = 0
    /\ cc_result = NoResult

\* TextProcessor(), the only instance where no chunker call is modelled
TpDefault ==
    /\ chunk_size = DEFAULT_CHUNK_SIZE
    /\ overlap = DEFAULT_OVERLAP

ScIdle ==
    /\ sc_text = <<>>
    /\ sc_enc = None
    /\ sc_calls = 0
    /\ sc_batches = <<>>
    /\ sc_result = NoResult
    /\ numpy_strict = TRUE

UpIdle ==
    /\ up_docs = <<>>
    /\ up_batch_size = 0
    /\ up_emb = None
    /\ up_ensured = None
    /\ up_items = <<>>
    /\ up_points = <<>>
    /\ up_raised = OK
    /\ up_line = 0
    /\ up_total = None

\* what the last request was answered with
NoResponse == [handler |-> "", status |-> 0, detail |-> "", llm |-> 0, body |-> <<>>]
NoRetriever == "None"
BM25RetrieverObject == "BM25Retriever"

\* no file at Config.RAW_RECIPES_PATH
NoFile == [exists |-> FALSE, readable |-> FALSE, content |-> <<>>]

\* recipe_api.py:17-23 and llm_manager.py:202, the modules as imported
ApiIdle ==
    /\ retriever = NoRetriever
    /\ llm_manager = 0
    /\ llm_manager_instance = 0
    /\ recipe_file = NoFile
    /\ started = FALSE
    /\ managers_built = 0
    /\ load_failures = 0
    /\ llm_handed = {}
    /\ response = NoResponse

GrIdle ==
    /\ gr_doc = 0
    /\ gr_term = <<>>
    /\ gr_before = <<>>
    /\ gr_added = 0

\* the threads that call retrieve
Readers == {1, 2}
RtIdle ==
    /\ rt_pc = [r \in Readers |-> "idle"]
    /\ rt_query = [r \in Readers |-> <<>>]
    /\ rt_top_k = [r \in Readers |-> None]
    /\ rt_n = [r \in Readers |-> 0]
    /\ rt_idx = [r \in Readers |-> 0]
    /\ rt_scores = [r \in Readers |-> <<>>]
    /\ rt_result = [r \in Readers |-> NoResult]
    /\ rt_calls = [r \in Readers |-> 0]

\* BM25Retriever(k1_arg, b_arg)
InitRetriever ==
    /\ \E args \in CtorArgs : k1_arg = args[1] /\ b_arg = args[2]
    /\ HasFields(NewRetriever(k1_arg, b_arg))
    /\ last_op = "init"
    /\ last_arg = <<>>
    /\ last_prior = <<>>
    /\ last_query = <<>>
    /\ last_top_k = None
    /\ last_result = NoResult
    /\ documents_shared = FALSE

Init == InitRetriever /\ IxIdle /\ CrIdle /\ ApiIdle /\ GrIdle /\ TpDefault /\ CcIdle /\ ScIdle /\ UpIdle /\ RtIdle

\* self.index_documents(docs)
IndexDocuments(docs) ==
    /\ SetSelf(index_documents(Self, docs))
    /\ last_op' = "index_documents"
    /\ last_arg' = docs
    /\ last_prior' = documents
    /\ last_query' = <<>>
    /\ last_top_k' = None
    /\ last_result' = NoResult
    /\ documents_shared' = TRUE
    /\ UNCHANGED <<k1_arg, b_arg, ixVars, tpVars, crVars, apiVars, grVars, ccVars, scVars, upVars, rtVars>>

\* self.retrieve(query, top_k)
Retrieve(query, top_k) ==
    /\ last_op' = "retrieve"
    /\ last_query' = query
    /\ last_top_k' = top_k
    /\ last_prior' = <<>>
    /\ last_result' = retrieve(Self, query, top_k)
    /\ UNCHANGED <<k1_arg, b_arg, last_arg, retrieverVars, ixVars, tpVars, crVars, apiVars, grVars, ccVars, scVars, upVars, rtVars, alVars>>

Next ==
    \/ \E docs \in Collections : IndexDocuments(docs)
    \/ \E query \in Queries, top_k \in TopKArgs : Retrieve(query, top_k)

Spec == Init /\ [][Next]_vars

(***************************************************************************)
(* Claims about the lexical index, under Spec.                             *)
(***************************************************************************)
Min(x, y) == IF x <= y THEN x ELSE y
NumDocs == Len(documents)
LastTopK == IF last_top_k = None THEN TOP_K_RETRIEVAL ELSE last_top_k[1]
Returned(value) == [raised |-> OK, value |-> value]

\* C2: retrieve on an empty index (never indexed, or indexed with []) returns
\* the empty list for every query and top_k, and does not raise.
C2_EmptyIndexRetrievesNothing ==
    (last_op = "retrieve" /\ documents = <<>>) => last_result = Returned(<<>>)

\* a query with tokens was asked of an empty index
C2_Witness ==
    /\ last_op = "retrieve"
    /\ documents = <<>>
    /\ tokenize(last_query) # <<>>
    /\ last_top_k = Some(2)

\* the score retrieve computes for passage i and the last query
ScoreOf(i) == calculate_bm25_score(Self, tokenize(last_query), i).value
\* the passages that precede passage i in the ranking: higher score, or equal
\* score and earlier in the index
Ahead(i) ==
    {j \in 1..NumDocs : ScoreOf(j) > ScoreOf(i) \/ (ScoreOf(j) = ScoreOf(i) /\ j < i)}
\* the passage at rank r
AtRank(r) == CHOOSE i \in 1..NumDocs : Cardinality(Ahead(i)) = r - 1
\* the first min(top_k, N) passages by score descending, ties in index order
RankedPrefix ==
    [r \in 1..Min(LastTopK, NumDocs) |->
        [doc |-> documents[AtRank(r)], score |-> ScoreOf(AtRank(r))]]

\* C3: for top_k >= 0, retrieve returns exactly the first min(top_k, N)
\* passages of the ranking by score descending with ties in index order.
C3_RetrieveReturnsRankedPrefix ==
    (last_op = "retrieve" /\ LastTopK >= 0) => last_result = Returned(RankedPrefix)

\* the same, for the calls that return: the ranking itself is right
RetrieveRanksWhenItReturns ==
    (last_op = "retrieve" /\ LastTopK >= 0 /\ last_result.raised = OK)
        => last_result = Returned(RankedPrefix)

\* C5: calculate_bm25_score never divides by zero, so retrieve never raises.
C5_NoDivisionByZero ==
    last_op = "retrieve" => last_result.raised # ZeroDivisionError

\* the state of a new BM25Retriever(k1_arg, b_arg) after index_documents(docs)
FreshIndex(docs) == index_documents(NewRetriever(k1_arg, b_arg), docs)

\* C6: the index state depends only on the argument of the last
\* index_documents call: it is the state a new instance has after indexing
\* that argument, so every retrieve gives what the new instance would give.
C6_LastIndexCallWins ==
    /\ Self = FreshIndex(last_arg)
    /\ last_op = "retrieve"
         => last_result = retrieve(FreshIndex(last_arg), last_query, last_top_k)

\* B was indexed over a different non-empty A, and a token of A is gone
C6_Witness ==
    /\ last_op = "index_documents"
    /\ last_prior # <<>>
    /\ last_arg # <<>>
    /\ last_prior # last_arg
    /\ \E i \in DOMAIN last_prior :
          Range(tokenize(last_prior[i])) \ DOMAIN doc_freqs # {}

\* C7: documents, tokenized_docs and doc_lengths have the length of the
\* indexed collection and doc_lengths[i] is the token count of tokenized_docs[i].
C7_ParallelSequences ==
    /\ Len(documents) = Len(last_arg)
    /\ Len(tokenized_docs) = Len(documents)
    /\ Len(doc_lengths) = Len(documents)
    /\ \A i \in DOMAIN doc_lengths : doc_lengths[i] = Len(tokenized_docs[i])

\* passages of different token counts, one with a repeated token, were indexed
C7_Witness ==
    /\ last_op = "index_documents"
    /\ Len(documents) >= 2
    /\ \E i, j \in DOMAIN doc_lengths : doc_lengths[i] # doc_lengths[j]
    /\ \E i \in DOMAIN doc_lengths : doc_lengths[i] > Cardinality(Range(tokenized_docs[i]))

\* C8: on a non-empty index a query without tokens returns the first
\* min(top_k, N) passages in index order, each with score 0.
C8_EmptyQueryScoresZero ==
    (last_op = "retrieve" /\ documents # <<>> /\ tokenize(last_query) = <<>>)
        => last_result =
              Returned([i \in 1..Min(LastTopK, NumDocs) |-> [doc |-> documents[i], score |-> 0]])

\* a punctuation-only query returned two different passages
C8_Witness ==
    /\ last_op = "retrieve"
    /\ last_query # <<>>
    /\ tokenize(last_query) = <<>>
    /\ Len(last_result.value) >= 2
    /\ last_result.value[1].doc # last_result.value[2].doc

\* passage i holds a token of the query
Matches(query, i) == Range(tokenize(query)) \cap Range(tokenized_docs[i]) # {}
DefaultParameters == k1 = BM25_K1 /\ b = BM25_B
\* the positions of the result whose passage has some / no token of the query
IsHit(entry) == Range(tokenize(last_query)) \cap Range(tokenize(entry.doc)) # {}

\* C9: with the default k1 and b a passage holding a query token scores above
\* 0 and a passage holding none scores 0, so retrieve lists every matching
\* passage before every other; on the three test recipes "pasta eggs" with
\* top_k = 2 returns two results, the carbonara passage first.
C9_MatchesScorePositive ==
    DefaultParameters =>
        /\ \A query \in Queries, i \in 1..NumDocs :
              LET r == calculate_bm25_score(Self, tokenize(query), i)
              IN /\ r.raised = OK
                 /\ Matches(query, i) => r.value > 0
                 /\ ~Matches(query, i) => r.value = 0
        /\ last_op = "retrieve" =>
              /\ last_result.raised = OK
              /\ \A m, n \in DOMAIN last_result.value :
                    (m < n /\ IsHit(last_result.value[n])) => IsHit(last_result.value[m])
              /\ Cardinality({m \in DOMAIN last_result.value : IsHit(last_result.value[m])})
                    = Min(LastTopK, Cardinality({i \in 1..NumDocs : Matches(last_query, i)}))
        /\ (last_op = "retrieve" /\ documents = TestDocs
                /\ last_query = PastaEggs /\ last_top_k = Some(2)) =>
              /\ Len(last_result.value) = 2
              /\ last_result.value[1].doc = Carbonara

\* the test of test_retriever.py:30-34 ran, and the second result is a miss
\* that was kept behind the hit
C9_Witness ==
    /\ DefaultParameters
    /\ last_op = "retrieve"
    /\ documents = TestDocs
    /\ last_query = PastaEggs
    /\ last_top_k = Some(2)
    /\ last_result.value[1].score > 0
    /\ last_result.value[2].score = 0

\* the passages whose token sequence holds t
PassagesWith(t) == {i \in DOMAIN tokenized_docs : t \in Range(tokenized_docs[i])}
\* the tokens of all the passages
IndexedTokens == UNION {Range(tokenized_docs[i]) : i \in DOMAIN tokenized_docs}

\* C18: doc_freqs[t] is the number of passages that hold t at least once: its
\* keys are exactly the tokens of the passages, 1 <= doc_freqs[t] <= N, and idf
\* has the same keys.
C18_DocFreqsCountPassages ==
    /\ DOMAIN doc_freqs = IndexedTokens
    /\ DOMAIN idf = DOMAIN doc_freqs
    /\ \A t \in DOMAIN doc_freqs :
          /\ doc_freqs[t] = Cardinality(PassagesWith(t))
          /\ 1 <= doc_freqs[t]
          /\ doc_freqs[t] <= NumDocs

\* a token that occurs twice in its only passage, next to a token of both passages
C18_Witness ==
    /\ last_op = "index_documents"
    /\ NumDocs = 2
    /\ \E t \in DOMAIN doc_freqs :
          /\ doc_freqs[t] = 1
          /\ \E i \in DOMAIN tokenized_docs : TermFreq(tokenized_docs[i], t) = 2
    /\ \E t \in DOMAIN doc_freqs : doc_freqs[t] = 2

\* ln((N - df + 0.5)/(df + 0.5) + 1) = ln((2N + 2)/(2df + 1))
IdfFormula(N, df) == Log(2 * N + 2, 2 * df + 1)

\* C19: idf[t] = ln((N - df(t) + 0.5)/(df(t) + 0.5) + 1); the argument of the
\* logarithm is above 1 for 1 <= df(t) <= N, so idf is above 0 even for a
\* token of every passage, and idf does not grow with df(t).
C19_IdfPositiveAndMonotone ==
    /\ \A t \in DOMAIN idf :
          /\ idf[t] = IdfFormula(NumDocs, doc_freqs[t])
          /\ 2 * NumDocs + 2 > 2 * doc_freqs[t] + 1
          /\ idf[t] > 0
    /\ \A t, u \in DOMAIN idf : doc_freqs[t] <= doc_freqs[u] => idf[t] >= idf[u]
    /\ \A df \in 1..NumDocs :
          /\ IdfOf(NumDocs, df) > 0
          /\ df < NumDocs => IdfOf(NumDocs, df) >= IdfOf(NumDocs, df + 1)

\* a token of every passage, and a rarer token with a larger idf
C19_Witness ==
    /\ last_op = "index_documents"
    /\ NumDocs >= 2
    /\ \E t, u \in DOMAIN idf :
          /\ doc_freqs[t] = NumDocs
          /\ doc_freqs[u] < NumDocs
          /\ idf[t] > 0
          /\ idf[u] > idf[t]

\* words to put around a query: "c", "zz top", "b"
ExtraWords == {<<"c">>, <<"z","z"," ","t","o","p">>, <<"b">>}
\* no token of `words` is in the idf table
Unknown(words) == Range(tokenize(words)) \cap DOMAIN idf = {}
\* the query without its tokens that are not in the idf table
KnownPart(query) == Join(SelectSeq(tokenize(query), LAMBDA t : t \in DOMAIN idf))

\* C20: query tokens that are not in the idf table contribute nothing and
\* raise nothing: retrieve gives the same passages, order and scores for a
\* query, for the query with unknown words after or before it, and for the
\* query without its unknown tokens.
C20_UnknownTokensContributeNothing ==
    last_op = "retrieve" =>
        /\ last_result.raised # KeyError
        /\ last_result = retrieve(Self, KnownPart(last_query), last_top_k)
        /\ \A extra \in ExtraWords :
              Unknown(extra) =>
                 /\ retrieve(Self, last_query \o <<" ">> \o extra, last_top_k) = last_result
                 /\ retrieve(Self, extra \o <<" ">> \o last_query, last_top_k) = last_result

\* "c a" was asked of an index that has "a" and not "c", and a passage scored
C20_Witness ==
    /\ last_op = "retrieve"
    /\ last_query = <<"c"," ","a">>
    /\ <<"c">> \notin DOMAIN idf
    /\ <<"a">> \in DOMAIN idf
    /\ last_result.raised = OK
    /\ last_result.value # <<>>
    /\ last_result.value[1].score > 0
    /\ last_result = retrieve(Self, <<"a">>, last_top_k)

\* str.upper()
Upper(text) ==
    [i \in DOMAIN text |->
        IF text[i] \in Range(LowerSeq)
        THEN UpperSeq[CHOOSE k \in DOMAIN LowerSeq : LowerSeq[k] = text[i]]
        ELSE text[i]]
\* the text in brackets, a comma after every word that a blank follows, "!" at the end
RECURSIVE Commas(_)
Commas(text) ==
    IF text = <<>>
    THEN <<>>
    ELSE (IF Head(text) = " " THEN <<",", " ">> ELSE <<Head(text)>>) \o Commas(Tail(text))
Punctuated(text) == <<"(">> \o Commas(text) \o <<")", "!">>
\* the word characters of the text, in order
WordCharsOf(text) == SelectSeq(text, LAMBDA c : c \in WordChars)
RECURSIVE Concat(_)
Concat(strings) == IF strings = <<>> THEN <<>> ELSE Head(strings) \o Concat(Tail(strings))
\* the number of maximal runs of word characters
WordRuns(text) ==
    Cardinality({i \in DOMAIN text :
        text[i] \in WordChars /\ (i = 1 \/ text[i - 1] \notin WordChars)})
\* "Hello, World!"
HelloWorld == <<"H","e","l","l","o",","," ","W","o","r","l","d","!">>
\* the texts whose tokens are looked at: the query and the passages
TokenizedTexts == {last_query, HelloWorld} \cup Range(documents)

\* C21: tokenize gives the maximal runs of word characters of the lower-cased
\* text, in order and with duplicates; a text without word characters gives
\* []; passages and queries go through the same function, so retrieve gives
\* the same result for a query, for the query in upper case and for the query
\* with punctuation put around and between its words.
C21_TokenizeNormalizes ==
    /\ tokenize(HelloWorld) = <<<<"h","e","l","l","o">>, <<"w","o","r","l","d">>>>
    /\ \A text \in TokenizedTexts :
          LET tokens == tokenize(text)
          IN /\ \A j \in DOMAIN tokens :
                   /\ tokens[j] # <<>>
                   /\ Range(tokens[j]) \subseteq WordChars \ Range(UpperSeq)
             /\ Concat(tokens) = WordCharsOf(Lower(text))
             /\ Len(tokens) = WordRuns(text)
             /\ WordCharsOf(text) = <<>> => tokens = <<>>
             /\ tokenize(Upper(text)) = tokens
             /\ tokenize(Punctuated(text)) = tokens
    /\ \A i \in DOMAIN documents : tokenized_docs[i] = tokenize(documents[i])
    /\ last_op = "retrieve" =>
          /\ retrieve(Self, Upper(last_query), last_top_k) = last_result
          /\ retrieve(Self, Lower(last_query), last_top_k) = last_result
          /\ retrieve(Self, Punctuated(last_query), last_top_k) = last_result

\* "B a" was asked of an index that holds "B! b a", which has the token b
\* twice, and the passage scored
C21_Witness ==
    /\ last_op = "retrieve"
    /\ last_query = <<"B"," ","a">>
    /\ \E i \in DOMAIN documents :
          /\ documents[i] = <<"B","!"," ","b"," ","a">>
          /\ tokenized_docs[i] = <<<<"b">>, <<"b">>, <<"a">>>>
    /\ last_result.raised = OK
    /\ last_result.value # <<>>
    /\ last_result.value[1].score > 0
    /\ retrieve(Self, <<"(","b",","," ","A",")","!">>, last_top_k) = last_result
\* the value the constructor was given for a parameter, or the configured default
Supplied(arg, default) == IF arg = None THEN default ELSE arg[1]

\* C29: the retriever scores with the k1 and b given to the constructor, 0
\* included, and with the configured 1.5 and 0.75 only for an argument left out.
C29_SuppliedParametersAreUsed ==
    /\ k1 = Supplied(k1_arg, BM25_K1)
    /\ b = Supplied(b_arg, BM25_B)
    /\ last_op = "retrieve" =>
          last_result = retrieve([Self EXCEPT !.k1 = Supplied(k1_arg, BM25_K1),
                                              !.b = Supplied(b_arg, BM25_B)],
                                 last_query, last_top_k)

\* every value but 0 is used as given; 0 gives the configured default
ZeroParametersFallBackToDefaults ==
    /\ k1 = IF k1_arg = Some(0) THEN BM25_K1 ELSE Supplied(k1_arg, BM25_K1)
    /\ b = IF b_arg = Some(0) THEN BM25_B ELSE Supplied(b_arg, BM25_B)
(***************************************************************************)
(* char_chunking, one loop iteration per step.                             *)
(***************************************************************************)
TextProcessorSelf == [chunk_size |-> chunk_size, overlap |-> overlap]

\* a string of 25 characters
Alphabet25 == SubSeq(LowerSeq, 1, 25)
\* "", "abcdefg", "ab  cd e", "\ra\x0bb\f", "abcdefghijklmnopqrstuvwxy"
ChunkTexts ==
    {<<>>, <<"a","b","c","d","e","f","g">>, <<"a","b"," "," ","c","d"," ","e">>,
     <<"\r","a",VerticalTab,"b","\f">>, Alphabet25}
\* TextProcessor() and TextProcessor(chunk_size, overlap) with small values
ProcessorArgs ==
    {<<DEFAULT_CHUNK_SIZE, DEFAULT_OVERLAP>>} \cup ((1..MaxChunk) \X (0..MaxOverlap))
ChunkSizeArgs == {None} \cup {Some(n) : n \in 0..MaxChunk} \cup {Some(10)}
OverlapArgs == {None} \cup {Some(n) : n \in 0..MaxOverlap}

RetrieverIdle ==
    /\ k1_arg = None
    /\ b_arg = None
    /\ HasFields(NewRetriever(None, None))
    /\ last_op = "init"
    /\ last_arg = <<>>
    /\ last_prior = <<>>
    /\ last_query = <<>>
    /\ last_top_k = None
    /\ last_result = NoResult
    /\ documents_shared = FALSE

\* TextProcessor(chunk_size, overlap), text_processor.py:26-27
InitProcessor ==
    \E args \in ProcessorArgs :
        /\ chunk_size = args[1]
        /\ overlap = args[2]

InitChunk == RetrieverIdle /\ IxIdle /\ CrIdle /\ ApiIdle /\ GrIdle /\ InitProcessor /\ CcIdle /\ ScIdle /\ UpIdle /\ RtIdle

\* self.char_chunking(text, chunk_size, overlap) up to the loop: text_processor.py:51-57
CharChunkingCall(text, chunk_size_given, overlap_given) ==
    /\ cc_pc \in {"idle", "done"}
    /\ cc_text' = text
    /\ cc_chunk_size' = chunk_size_given
    /\ cc_overlap' = overlap_given
    /\ cc_start' = 0
    /\ cc_end' = 0
    /\ cc_chunks' = <<>>
    /\ cc_seen' = {}
    /\ cc_steps' = 0
    /\ cc_result' = NoResult
    /\ IF text = <<>>
       THEN /\ cc_pc' = "done"
            /\ cc_cs' = 0
            /\ cc_ov' = 0
       ELSE /\ cc_pc' = "loop"
            /\ cc_cs' = Effective(chunk_size_given, chunk_size)
            /\ cc_ov' = Effective(overlap_given, overlap)
    /\ UNCHANGED <<retrieverVars, callVars, ixVars, tpVars, crVars, apiVars, grVars, scVars, upVars, rtVars, alVars>>

\* one test of `while start < n` and the body that follows: text_processor.py:58-66.
\* A window start that comes back is not followed further.
CharChunkingIteration ==
    /\ cc_pc = "loop"
    /\ cc_start \notin cc_seen
    /\ LET n == Len(cc_text)
           end == WindowEnd(cc_start, cc_cs, n)
           appended == Append(cc_chunks, Strip(Substring(cc_text, cc_start, end)))
       IN IF ~(cc_start < n)
          THEN /\ cc_pc' = "done"
               /\ cc_result' = [raised |-> OK, value |-> NonEmpty(cc_chunks)]
               /\ UNCHANGED <<cc_start, cc_end, cc_chunks, cc_seen, cc_steps>>
          ELSE /\ cc_end' = end
               /\ cc_chunks' = appended
               /\ cc_seen' = cc_seen \cup {cc_start}
               /\ cc_steps' = cc_steps + 1
               /\ IF end = n
                  THEN /\ cc_pc' = "done"
                       /\ cc_start' = cc_start
                       /\ cc_result' = [raised |-> OK, value |-> NonEmpty(appended)]
                  ELSE /\ cc_pc' = "loop"
                       /\ cc_start' = NextStart(end, cc_ov)
                       /\ cc_result' = cc_result
    /\ UNCHANGED <<cc_text, cc_chunk_size, cc_overlap, cc_cs, cc_ov>>
    /\ UNCHANGED <<retrieverVars, callVars, ixVars, tpVars, crVars, apiVars, grVars, scVars, upVars, rtVars, alVars>>

NextChunk ==
    \/ \E text \in ChunkTexts, cs \in ChunkSizeArgs, ov \in OverlapArgs :
          CharChunkingCall(text, cs, ov)
    \/ CharChunkingIteration

SpecChunk == InitChunk /\ [][NextChunk]_vars

(***************************************************************************)
(* Claims about char_chunking, under SpecChunk.                            *)
(***************************************************************************)
\* C1: char_chunking terminates for every non-empty text and every
\* chunk_size > 0, also when overlap >= chunk_size.  The loop's control depends
\* on start alone, so it terminates exactly if no iteration begins at a window
\* start that an earlier iteration of the call began at.
C1_CharChunkingTerminates == cc_pc = "loop" => cc_start \notin cc_seen

\* with overlap < chunk_size every iteration moves the window forward
TerminatesWhenOverlapIsSmaller ==
    (cc_pc = "loop" /\ cc_ov < cc_cs) => cc_start \notin cc_seen

\* the loop as a function gives what the steps give
LoopAgreesWithSteps ==
    /\ cc_pc = "done" =>
          cc_result = char_chunking(TextProcessorSelf, cc_text, cc_chunk_size, cc_overlap)
    /\ (cc_pc = "loop" /\ cc_start \in cc_seen) =>
          char_chunking(TextProcessorSelf, cc_text, cc_chunk_size, cc_overlap).raised
              = NeverReturns

\* the windows [0, cs), [cs, 2cs), ... of the text, stripped, the empty ones left out
CeilDiv(x, y) == (x + y - 1) \div y
ConsecutiveWindows(text, cs) ==
    NonEmpty([w \in 1..CeilDiv(Len(text), cs) |->
                Strip(SubSeq(text, (w - 1) * cs + 1, Min(w * cs, Len(text))))])
\* the call under way or ended was made with chunk_size > 0 and overlap = 0
CalledWithoutOverlap ==
    /\ cc_pc # "idle"
    /\ cc_text # <<>>
    /\ cc_chunk_size # None
    /\ cc_chunk_size # Some(0)
    /\ cc_overlap = Some(0)

\* C13: the chunk_size and overlap given to a call override the instance's:
\* char_chunking(text, chunk_size=cs, overlap=0) terminates and returns the
\* ceil(n/cs) consecutive windows of cs characters that cover the text, three
\* for chunk_size=10 on 25 characters, on every TextProcessor.
C13_PerCallArgumentsOverride ==
    CalledWithoutOverlap =>
        /\ cc_pc = "loop" => cc_start \notin cc_seen
        /\ cc_pc = "done" =>
              /\ cc_steps = CeilDiv(Len(cc_text), cc_chunk_size[1])
              /\ cc_result = Returned(ConsecutiveWindows(cc_text, cc_chunk_size[1]))
              /\ (cc_text = Alphabet25 /\ cc_chunk_size = Some(10)) =>
                    Len(cc_result.value) = 3

\* the same on an instance whose own overlap is 0: overlap=0 in the call is
\* `overlap or self.overlap`, the instance's value
OverrideWhenInstanceOverlapIsZero ==
    (CalledWithoutOverlap /\ overlap = 0) =>
        /\ cc_pc = "loop" => cc_start \notin cc_seen
        /\ cc_pc = "done" =>
              /\ cc_steps = CeilDiv(Len(cc_text), cc_chunk_size[1])
              /\ cc_result = Returned(ConsecutiveWindows(cc_text, cc_chunk_size[1]))

\* C14: for a non-empty text and cs > 0, char_chunking terminates within
\* ceil(len(text)/(cs-ov)) iterations of its loop, cs and ov being the
\* effective chunk size and overlap.
C14_TerminatesWithinStepBound ==
    (cc_pc # "idle" /\ cc_text # <<>>) =>
        /\ cc_pc = "loop" => cc_start \notin cc_seen
        /\ cc_ov < cc_cs => cc_steps <= CeilDiv(Len(cc_text), cc_cs - cc_ov)

\* with ov < cs the bound holds, and the number of iterations of a call that
\* ended is 1 for a text of at most cs characters and
\* ceil((len(text) - cs)/(cs - ov)) + 1 for a longer one
StepBoundWhenOverlapIsSmaller ==
    (cc_pc # "idle" /\ cc_text # <<>> /\ cc_ov < cc_cs) =>
        /\ cc_pc = "loop" => cc_start \notin cc_seen
        /\ cc_steps <= CeilDiv(Len(cc_text), cc_cs - cc_ov)
        /\ cc_pc = "done" =>
              cc_steps = IF Len(cc_text) <= cc_cs
                         THEN 1
                         ELSE CeilDiv(Len(cc_text) - cc_cs, cc_cs - cc_ov) + 1

\* `chunk` is `window` without the whitespace at its two ends
Trimmed(chunk, window) ==
    LET solid == {i \in DOMAIN window : window[i] \notin Whitespace}
    IN IF solid = {}
       THEN chunk = <<>>
       ELSE \E a, c \in solid :
               /\ \A i \in solid : a <= i /\ i <= c
               /\ chunk = SubSeq(window, a, c)
Max(x, y) == IF x >= y THEN x ELSE y
\* the step runs the body of the loop once
BodyRuns == cc_pc = "loop" /\ cc_steps' = cc_steps + 1
\* the step ends a call
CallEnds == cc_pc' = "done" /\ (cc_pc = "loop" \/ cc_text' # cc_text \/ cc_pc = "idle")

\* C26: each iteration of the loop of char_chunking begins with
\* 0 <= start < n, sets end = min(start + cs, n), appends the window
\* text[start:end] without the whitespace at its ends, stops when end = n and
\* otherwise goes on with start = max(0, end - ov); the list returned holds
\* the non-empty ones of these chunks, in order, each of at most cs
\* characters; an empty text returns [].
C26_WindowsAreTrimmedAndBounded ==
    [][/\ BodyRuns =>
            /\ 0 <= cc_start
            /\ cc_start < Len(cc_text)
            /\ cc_end' = Min(cc_start + cc_cs, Len(cc_text))
            /\ (cc_pc' = "done") = (cc_end' = Len(cc_text))
            /\ cc_pc' = "loop" => cc_start' = Max(0, cc_end' - cc_ov)
            /\ Len(cc_chunks') = Len(cc_chunks) + 1
            /\ SubSeq(cc_chunks', 1, Len(cc_chunks)) = cc_chunks
            /\ Trimmed(cc_chunks'[Len(cc_chunks')], SubSeq(cc_text, cc_start + 1, cc_end'))
       /\ CallEnds =>
            /\ cc_result'.raised = OK
            /\ cc_result'.value = SelectSeq(cc_chunks', LAMBDA c : Len(c) > 0)
            /\ \A k \in DOMAIN cc_result'.value :
                  /\ cc_result'.value[k] # <<>>
                  /\ Len(cc_result'.value[k]) <= cc_cs'
                  /\ cc_result'.value[k][1] \notin Whitespace
                  /\ cc_result'.value[k][Len(cc_result'.value[k])] \notin Whitespace
            /\ cc_text' = <<>> => cc_result'.value = <<>>
      ]_vars

\* a call ended after three or more windows, one of them all whitespace and
\* dropped, another one shortened by the trimming
C26_Witness ==
    /\ cc_pc = "done"
    /\ cc_steps >= 3
    /\ \E k \in DOMAIN cc_chunks : cc_chunks[k] = <<>>
    /\ \E k \in DOMAIN cc_chunks : cc_chunks[k] # <<>> /\ Len(cc_chunks[k]) < cc_cs
    /\ Len(cc_result.value) < Len(cc_chunks)
    /\ Len(cc_result.value) >= 2

(***************************************************************************)
(* semantic_chunking, one call per step.                                   *)
(***************************************************************************)
\* "Boil the pasta in salted water for ten minutes. Drain. Serve the pasta
\* with grated cheese and black pepper."
RecipeText ==
    <<"B","o","i","l"," ","t","h","e"," ","p","a","s","t","a"," ","i","n"," ",
    "s","a","l","t","e","d"," ","w","a","t","e","r"," ","f","o","r"," ","t",
    "e","n"," ","m","i","n","u","t","e","s","."," ","D","r","a","i","n",".",
    " ","S","e","r","v","e"," ","t","h","e"," ","p","a","s","t","a"," ","w",
    "i","t","h"," ","g","r","a","t","e","d"," ","c","h","e","e","s","e"," ",
    "a","n","d"," ","b","l","a","c","k"," ","p","e","p","p","e","r",".">>
\* "Drain. Serve the pasta with grated cheese and black pepper."
DrainServe == SubSeq(RecipeText, 49, Len(RecipeText))
\* "", "  ", "Stir well", "Boil.  Stir!", "Mix. Bake? Eat. ", RecipeText, DrainServe
SemTexts == {DrainServe, <<>>, <<" "," ">>, <<"M","i","x",".","\f","\r","E","a","t","!",UnitSeparator>>, <<"S","t","i","r"," ","w","e","l","l">>, <<"B","o","i","l","."," "," ","S","t","i","r","!">>, <<"M","i","x","."," ","B","a","k","e","?"," ","E","a","t","."," ">>, RecipeText}

\* rows 1 and 3 are orthogonal, and each is at 45 degrees to row 2
ChainPalette == << <<1, 0>>, <<1, 1>>, <<0, 1>> >>
\* two rows whose cosine is 13/20, the threshold
ThresholdPalette == << <<1, 0, 0, 0, 0>>, <<13, 15, 2, 1, 1>> >>
\* rows that stay together, rows that split, a mix with a zero row
Palettes == {<< <<1, 0>>, <<1, 1>> >>, << <<1, 0>>, <<0, 1>> >>,
             << <<1, 1>>, <<1, 1>>, <<0, 0>> >>, ChainPalette, ThresholdPalette}
Encoders ==
    [kind : {"matrix"}, extra : {-1, 0, 1}, palette : Palettes]
    \cup [kind : {"scalar", "list", "cube", "ragged"}, extra : {0}, palette : {<<>>}]

\* TextProcessor(), TextProcessor(chunk_size=900, overlap=200) of embeddings.py:22,
\* and two with windows shorter than the texts
SemProcessorArgs ==
    {<<DEFAULT_CHUNK_SIZE, DEFAULT_OVERLAP>>, <<900, 200>>, <<30, 10>>, <<25, 25>>}

InitSem ==
    /\ RetrieverIdle /\ IxIdle /\ CrIdle /\ ApiIdle /\ GrIdle /\ CcIdle /\ UpIdle /\ RtIdle
    /\ \E args \in SemProcessorArgs :
          /\ chunk_size = args[1]
          /\ overlap = args[2]
    /\ sc_text = <<>>
    /\ sc_enc = None
    /\ sc_calls = 0
    /\ sc_batches = <<>>
    /\ sc_result = NoResult
    /\ numpy_strict \in BOOLEAN

\* self.semantic_chunking(text, encoder_fn)
SemanticChunking(text, encoder) ==
    \E r \in {semantic_chunking(TextProcessorSelf, text, encoder, numpy_strict)} :
       /\ sc_text' = text
       /\ sc_enc' = encoder
       /\ sc_calls' = r.calls
       /\ sc_batches' = r.batches
       /\ sc_result' = [raised |-> r.raised, value |-> r.value]
       /\ UNCHANGED <<numpy_strict, retrieverVars, callVars, ixVars, tpVars, crVars, apiVars, grVars, ccVars, upVars, rtVars, alVars>>

NextSem == \E text \in SemTexts, encoder \in Encoders : SemanticChunking(text, encoder)

SpecSem == InitSem /\ [][NextSem]_vars

(***************************************************************************)
(* Claims about semantic_chunking, under SpecSem.                          *)
(***************************************************************************)
SemSentences == split_into_sentences(clean_text(sc_text))
\* the encoder gave a two-dimensional array with one row per sentence
GoodShape ==
    /\ sc_enc.kind = "matrix"
    /\ sc_enc.extra = 0
FixedWindowFallback == char_chunking(TextProcessorSelf, clean_text(sc_text), None, None)

\* C10: when the encoder returns something that is not a two-dimensional
\* array with one row per sentence, semantic_chunking does not raise and its
\* result is that of char_chunking(clean_text(text)).
C10_BadShapeFallsBack ==
    (sc_calls = 1 /\ ~GoodShape) => sc_result = FixedWindowFallback

\* the same for what np.asarray accepts: a scalar, a flat list, a cube, a
\* matrix with too few or too many rows, and ragged rows under an older NumPy
FallbackWhenArrayConverts ==
    (sc_calls = 1 /\ ~GoodShape /\ ~(sc_enc.kind = "ragged" /\ numpy_strict))
        => sc_result = FixedWindowFallback

\* C11: semantic_chunking does not invoke the encoder when the cleaned text
\* has no sentence (the result is []) or one sentence (the result is that
\* sentence alone), and invokes it exactly once, with all the sentences in
\* order, when there are two or more.
C11_EncoderInvokedOncePerCall ==
    /\ Len(SemSentences) = 0 =>
          /\ sc_batches = <<>>
          /\ sc_result = Returned(<<>>)
    /\ Len(SemSentences) = 1 =>
          /\ sc_batches = <<>>
          /\ sc_result = Returned(<<SemSentences[1]>>)
    /\ Len(SemSentences) >= 2 => sc_batches = <<SemSentences>>
    /\ sc_calls = Len(sc_batches)

\* three sentences went to the encoder in one batch and were grouped
C11_Witness ==
    /\ Len(SemSentences) = 3
    /\ GoodShape
    /\ sc_calls = 1
    /\ sc_batches = <<SemSentences>>
    /\ sc_result.value # <<>>

\* the chunks of the grouping loop of the last call, before the merge
SemGrouped ==
    GroupSentences(SemSentences, EncoderReturn(sc_enc, SemSentences).rows, 2,
                   <<SemSentences[1]>>, <<>>)
\* the call took the similarity path
SimilarityPath == sc_calls = 1 /\ GoodShape /\ sc_result.raised = OK
\* `short` is the beginning of `long`
StartsWith(long, short) ==
    /\ Len(short) <= Len(long)
    /\ SubSeq(long, 1, Len(short)) = short
\* the grouped chunks that open an output chunk: the first, and every later
\* one of at least 40 characters
Openers == {j \in DOMAIN SemGrouped : j = 1 \/ Len(SemGrouped[j]) >= SMALL_CHUNK}
\* the grouped chunk that opens output chunk i
Opener(i) == CHOOSE j \in Openers : Cardinality({o \in Openers : o < j}) = i - 1

\* C15: on the similarity path every output chunk but the first has at least
\* 40 characters: a grouped chunk of fewer than 40 characters is joined, with
\* a space, to the output chunk before it, and the first grouped chunk opens
\* the first output chunk however short it is.
C15_SmallChunksMergeBackward ==
    SimilarityPath =>
        LET out == sc_result.value
        IN /\ \A i \in DOMAIN out : i > 1 => Len(out[i]) >= SMALL_CHUNK
           /\ Len(out) = Cardinality(Openers)
           /\ \A i \in DOMAIN out :
                 out[i] = Join(SubSeq(SemGrouped, Opener(i),
                                      IF i = Len(out) THEN Len(SemGrouped)
                                      ELSE Opener(i + 1) - 1))

\* a short first chunk was kept, a short second one was joined to it, and a
\* long third one stands alone
C15_Witness ==
    /\ SimilarityPath
    /\ Len(SemGrouped) = 3
    /\ Len(SemGrouped[2]) < SMALL_CHUNK
    /\ Len(sc_result.value) = 2
    /\ StartsWith(sc_result.value[1], SemGrouped[1])
    /\ sc_result.value[2] = SemGrouped[3]

\* a first chunk of fewer than 40 characters stays the first output chunk
ShortFirstChunkIsKept ==
    (SimilarityPath /\ sc_text = DrainServe /\ Len(SemGrouped) = 2) =>
        /\ Len(sc_result.value[1]) < SMALL_CHUNK
        /\ sc_result.value = SemGrouped

\* the rows the encoder gave for the sentences of the last call
SemRows == EncoderReturn(sc_enc, SemSentences).rows
\* the cosine of the rows of sentences i - 1 and i is at least 13/20
CosineAtLeastThreshold(i) ==
    LET u == SemRows[i - 1]
        v == SemRows[i]
    IN /\ Dot(u, v) > 0
       /\ 400 * Dot(u, v) * Dot(u, v) >= 169 * Dot(u, u) * Dot(v, v)
\* the sentences that open a chunk: the first, and every sentence whose cosine
\* with the sentence before it is below the threshold
SemStarts == {1} \cup {i \in 2..Len(SemSentences) : ~CosineAtLeastThreshold(i)}
\* the k-th of them
SemStart(k) == CHOOSE i \in SemStarts : Cardinality({j \in SemStarts : j < i}) = k - 1
\* the sentences cut at these places, each piece joined with single spaces
SemCutAtBoundaries ==
    [k \in 1..Cardinality(SemStarts) |->
        Join(SubSeq(SemSentences, SemStart(k),
                    IF k = Cardinality(SemStarts) THEN Len(SemSentences)
                    ELSE SemStart(k + 1) - 1))]

\* C25: on the similarity path the chunks that go into the merge are the
\* sentences cut exactly where the cosine of a sentence and the sentence right
\* before it is below the threshold: no other sentence of the running chunk
\* counts, and a cosine equal to the threshold does not cut.
C25_BoundaryWherePrecedingCosineIsBelow ==
    SimilarityPath =>
        /\ sc_result.value = MergeSmall(SemCutAtBoundaries, 1, <<>>)
        /\ sc_enc.palette = ThresholdPalette => Len(sc_result.value) = 1
        /\ sc_enc.palette = ChainPalette => sc_result.value = <<Join(SemSentences)>>

\* three sentences stayed in one chunk although the rows of the first and the
\* third are orthogonal
C25_Witness ==
    /\ SimilarityPath
    /\ sc_text = RecipeText
    /\ sc_enc.palette = ChainPalette
    /\ Len(SemSentences) = 3
    /\ Dot(SemRows[1], SemRows[3]) = 0
    /\ CosineAtLeastThreshold(2)
    /\ CosineAtLeastThreshold(3)
    /\ sc_result.value = <<clean_text(RecipeText)>>

\* rows at the threshold: the three sentences stay together
AtThresholdStaysTogether ==
    (SimilarityPath /\ sc_text = RecipeText /\ sc_enc.palette = ThresholdPalette) =>
        /\ 400 * Dot(SemRows[1], SemRows[2]) * Dot(SemRows[1], SemRows[2])
              = 169 * Dot(SemRows[1], SemRows[1]) * Dot(SemRows[2], SemRows[2])
        /\ sc_result.value = <<clean_text(RecipeText)>>

\* the chunks are the sentences cut at the places `cuts` (the sentences that
\* open a chunk), each piece joined with single spaces
CutAt(cuts, out) ==
    /\ 1 \in cuts
    /\ Cardinality(cuts) = Len(out)
    /\ \A k \in DOMAIN out :
          LET from == CHOOSE i \in cuts : Cardinality({j \in cuts : j < i}) = k - 1
              later == {j \in cuts : j > from}
              to == IF later = {} THEN Len(SemSentences) ELSE SetMin(later) - 1
          IN out[k] = Join(SubSeq(SemSentences, from, to))

\* C27: on the similarity path the output chunks are the sentences of the
\* cleaned text, each in exactly one chunk and all in their order, the chunk
\* being its sentences joined with single spaces; the chunks joined with
\* single spaces are the cleaned text, and the result is not empty.
C27_SentencesKeptInOrder ==
    SimilarityPath =>
        /\ sc_result.value # <<>>
        /\ \E cuts \in SUBSET (1..Len(SemSentences)) : CutAt(cuts, sc_result.value)
        /\ Join(sc_result.value) = clean_text(sc_text)
        /\ Join(SemSentences) = clean_text(sc_text)

\* a text with runs of blanks gave two chunks, the first of two sentences,
\* one of them joined to it by the merge
C27_Witness ==
    /\ SimilarityPath
    /\ sc_text = RecipeText
    /\ Len(SemSentences) = 3
    /\ Len(SemGrouped) = 3
    /\ Len(sc_result.value) = 2
    /\ sc_result.value[1] = Join(SubSeq(SemSentences, 1, 2))
    /\ sc_result.value[2] = SemSentences[3]
    /\ Join(sc_result.value) = RecipeText

(***************************************************************************)
(* upsert_docs, one call per step, on the manager's                        *)
(* TextProcessor(chunk_size=900, overlap=200).                             *)
(***************************************************************************)
\* {"text": ""},
\* {"text": "Boil.  Stir!", "metadata": {"row_id": 3}},
\* {"text": RecipeText, "metadata": {"id": 7}}
IngestDocs ==
    {[text |-> <<>>],
     [text |-> <<"B","o","i","l","."," "," ","S","t","i","r","!">>,
      metadata |-> [key \in {"row_id"} |-> 3]],
     [text |-> RecipeText, metadata |-> [key \in {"id"} |-> 7]]}
MaxIngest == 2          \* documents in one upsert_docs call
IngestLists == SeqsUpTo(IngestDocs, MaxIngest)
\* encoders that, given a list, return one row per string, one row too many,
\* a flat list, rows of unequal length, or raise
IngestKinds ==
    {[kind |-> "matrix", extra |-> 0, palette |-> << <<1, 0>>, <<0, 1>> >>],
     [kind |-> "matrix", extra |-> 1, palette |-> << <<1, 0>>, <<1, 1>> >>],
     [kind |-> "list", extra |-> 0, palette |-> <<>>],
     [kind |-> "ragged", extra |-> 0, palette |-> <<>>],
     [kind |-> "raises", extra |-> 0, palette |-> <<>>]}
\* and that, given "ping", return a vector of two numbers or raise
IngestEncoders ==
    {[kind |-> e.kind, extra |-> e.extra, palette |-> e.palette, ping |-> p] :
        e \in IngestKinds, p \in {Some(2), None}}
\* batch_size: embeddings.py:35 has 16
DEFAULT_BATCH_SIZE == 16
\* the batch_size that the manager's caller passes
BatchSizes == {2, DEFAULT_BATCH_SIZE}

\* embeddings.py:22
MANAGER_CHUNK_SIZE == 900
MANAGER_OVERLAP == 200

\* EmbeddingManager(collection, emb, ...), embeddings.py:14-22
InitIngest ==
    /\ RetrieverIdle /\ IxIdle /\ CrIdle /\ ApiIdle /\ GrIdle /\ CcIdle /\ RtIdle
    /\ up_docs = <<>>
    /\ up_batch_size \in BatchSizes
    /\ up_emb \in IngestEncoders
    /\ up_ensured = None
    /\ up_items = <<>>
    /\ up_points = <<>>
    /\ up_raised = OK
    /\ up_line = 0
    /\ up_total = None
    /\ chunk_size = MANAGER_CHUNK_SIZE
    /\ overlap = MANAGER_OVERLAP
    /\ sc_text = <<>>
    /\ sc_enc = None
    /\ sc_calls = 0
    /\ sc_batches = <<>>
    /\ sc_result = NoResult
    /\ numpy_strict \in BOOLEAN

\* self.upsert_docs(docs, batch_size)
UpsertDocs(docs) ==
    \E r \in {upsert_docs(TextProcessorSelf, docs, up_batch_size, up_emb, numpy_strict)} :
       /\ up_docs' = docs
       /\ UNCHANGED up_batch_size
       /\ up_ensured' = r.ensured
       /\ up_items' = r.items
       /\ up_points' = r.points
       /\ up_raised' = r.raised
       /\ up_line' = r.line
       /\ up_total' = r.total
       /\ UNCHANGED <<up_emb, retrieverVars, callVars, ixVars, tpVars, crVars, apiVars, grVars, ccVars, scVars, rtVars, alVars>>

NextIngest == \E docs \in IngestLists : UpsertDocs(docs)

SpecIngest == InitIngest /\ [][NextIngest]_vars

(***************************************************************************)
(* Claims about upsert_docs, under SpecIngest.                             *)
(***************************************************************************)
UpRows == WithText(up_docs)
\* semantic_chunking on the cleaned text of row r of the last call
UpSemantic(r) ==
    semantic_chunking(TextProcessorSelf, clean_text(UpRows[r].text), up_emb, numpy_strict)
\* char_chunking on the same cleaned text
UpFixedWindow(r) == char_chunking(TextProcessorSelf, clean_text(UpRows[r].text), None, None)
\* the chunk texts of row r in chunked_items: row r's items follow those of
\* the rows before it
UpChunkCount(r) ==
    Len(IF UpSemantic(r).raised = OK THEN UpSemantic(r).value ELSE UpFixedWindow(r).value)
UpOffset(r) == Sum([q \in 1..(r - 1) |-> UpChunkCount(q)])
UpChunksOfRow(r) ==
    [c \in 1..UpChunkCount(r) |-> up_items[UpOffset(r) + c].chunk_text]

\* the call came to the chunk-building loop: it had a document with a text,
\* and the probe of line 48 returned
UpLoopRan == UpRows # <<>> /\ up_emb.ping # None

\* C12: upsert_docs catches every exception of semantic_chunking and of its
\* encoder: a call never raises inside the chunk-building loop (lines 53-76),
\* and when the loop ran, a document for which semantic_chunking raised has
\* the chunks of char_chunking on the same cleaned text (any other document
\* those of semantic_chunking).
C12_IngestionFallsBack ==
    /\ up_line \notin 53..76
    /\ UpLoopRan =>
          /\ Len(up_items) = Sum([r \in DOMAIN UpRows |-> UpChunkCount(r)])
          /\ \A r \in DOMAIN UpRows :
                UpChunksOfRow(r) = IF UpSemantic(r).raised = OK
                                   THEN UpSemantic(r).value
                                   ELSE UpFixedWindow(r).value

\* the encoder raised on the three-sentence recipe, which came out as the one
\* window of char_chunking
C12_Witness ==
    /\ UpLoopRan
    /\ EncoderRaises(up_emb)
    /\ Len(UpRows) = 2
    /\ UpRows[2].text = RecipeText
    /\ UpSemantic(2).raised = RuntimeError
    /\ up_items[Len(up_items)].chunk_text = RecipeText
    /\ up_items[Len(up_items)].chunk_id = 0

(***************************************************************************)
(* index_documents in one thread and retrieve in another, both line by     *)
(* line: a step is one read or one write of a field of the instance (the   *)
(* threads share nothing else), with the local computation that follows    *)
(* it.  Neither method takes a lock.                                       *)
(***************************************************************************)
\* [], ["a"], ["a", "B! b a"], ["B! b a", "a"], [" !", "B! b a"]
ConcCollections ==
    {<<>>, <<<<"a">>>>, << <<"a">>, <<"B","!"," ","b"," ","a">> >>,
     << <<"B","!"," ","b"," ","a">>, <<"a">> >>, << <<" ","!">>, <<"B","!"," ","b"," ","a">> >>}
ConcQueries == {<<"a">>, <<"B", " ", "a">>}

InitConc ==
    /\ RetrieverIdle /\ IxIdle /\ CrIdle /\ ApiIdle /\ GrIdle /\ TpDefault /\ CcIdle /\ ScIdle /\ UpIdle /\ RtIdle

\* what the index thread leaves alone
IxOthers ==
    UNCHANGED <<k1, b, ix_arg, ix_prev, ix_calls, callVars, tpVars, crVars, apiVars, grVars, ccVars,
                scVars, upVars, rtVars, alVars>>

\* the call and retriever.py:58
IxCall(docs) ==
    /\ ix_pc = "idle"
    /\ ix_calls < MaxIndexCalls
    /\ ix_calls' = ix_calls + 1
    /\ ix_arg' = docs
    /\ ix_prev' = ix_arg
    /\ documents' = docs
    /\ documents_shared' = TRUE
    /\ ix_pc' = "line59"
    /\ UNCHANGED <<k1, b, tokenized_docs, doc_lengths, avg_doc_length, doc_freqs, idf,
                   ix_i, ix_todo, ix_keys, callVars, tpVars, crVars, apiVars, grVars, ccVars,
                   scVars, upVars, rtVars>>

\* retriever.py:59
IxTokenize ==
    /\ ix_pc = "line59"
    /\ tokenized_docs' = [i \in DOMAIN documents |-> tokenize(documents[i])]
    /\ ix_pc' = "line60"
    /\ UNCHANGED <<documents, doc_lengths, avg_doc_length, doc_freqs, idf, ix_i, ix_todo,
                   ix_keys>>
    /\ IxOthers

\* retriever.py:60
IxLengths ==
    /\ ix_pc = "line60"
    /\ doc_lengths' = DocLengths(tokenized_docs)
    /\ ix_pc' = "line61"
    /\ UNCHANGED <<documents, tokenized_docs, avg_doc_length, doc_freqs, idf, ix_i, ix_todo,
                   ix_keys>>
    /\ IxOthers

\* retriever.py:61
IxAverage ==
    /\ ix_pc = "line61"
    /\ avg_doc_length' = AvgLength(doc_lengths)
    /\ ix_pc' = "line64"
    /\ UNCHANGED <<documents, tokenized_docs, doc_lengths, doc_freqs, idf, ix_i, ix_todo,
                   ix_keys>>
    /\ IxOthers

\* retriever.py:64
IxResetFreqs ==
    /\ ix_pc = "line64"
    /\ doc_freqs' = FreshFreqs(Self)
    /\ ix_keys' = <<>>
    /\ ix_i' = 1
    /\ ix_pc' = "line65"
    /\ UNCHANGED <<documents, tokenized_docs, doc_lengths, avg_doc_length, idf, ix_todo>>
    /\ IxOthers

\* the orders in which a set can be iterated: string hashes differ from one
\* process to the next
IterationOrders(S) ==
    {order \in [1..Cardinality(S) -> S] : Range(order) = S}

\* retriever.py:65-66: the next passage and the set of its tokens, or the end
\* of the loop
IxNextPassage ==
    /\ ix_pc = "line65"
    /\ IF ix_i <= Len(tokenized_docs)
       THEN /\ ix_todo' \in IterationOrders(Range(tokenized_docs[ix_i]))
            /\ ix_pc' = "line67"
       ELSE /\ ix_pc' = "line71"
            /\ UNCHANGED ix_todo
    /\ UNCHANGED <<documents, tokenized_docs, doc_lengths, avg_doc_length, doc_freqs, idf,
                   ix_i, ix_keys>>
    /\ IxOthers

\* retriever.py:68, self.doc_freqs[token] = self.doc_freqs.get(token, 0) + 1
CountToken(freqs, token) ==
    [t \in DOMAIN freqs \cup {token} |->
        IF t = token
        THEN (IF token \in DOMAIN freqs THEN freqs[token] ELSE 0) + 1
        ELSE freqs[t]]

\* retriever.py:67-68: one token of the passage, or the end of the inner loop
IxCountToken ==
    /\ ix_pc = "line67"
    /\ IF ix_todo # <<>>
       THEN /\ doc_freqs' = CountToken(doc_freqs, Head(ix_todo))
            /\ ix_keys' = IF Head(ix_todo) \in DOMAIN doc_freqs
                          THEN ix_keys
                          ELSE Append(ix_keys, Head(ix_todo))
            /\ ix_todo' = Tail(ix_todo)
            /\ UNCHANGED <<ix_i, ix_pc>>
       ELSE /\ ix_i' = ix_i + 1
            /\ ix_pc' = "line65"
            /\ UNCHANGED <<doc_freqs, ix_keys, ix_todo>>
    /\ UNCHANGED <<documents, tokenized_docs, doc_lengths, avg_doc_length, idf>>
    /\ IxOthers

\* retriever.py:71-73: num_docs, the empty idf, and the items of doc_freqs in
\* the order of their insertion
IxResetIdf ==
    /\ ix_pc = "line71"
    /\ idf' = EmptyDict
    /\ ix_todo' = ix_keys
    /\ ix_pc' = "line73"
    /\ UNCHANGED <<documents, tokenized_docs, doc_lengths, avg_doc_length, doc_freqs,
                   ix_i, ix_keys>>
    /\ IxOthers

\* retriever.py:73-74, one token, or the end of the loop and of the call
IxIdfToken ==
    /\ ix_pc = "line73"
    /\ IF ix_todo # <<>>
       THEN /\ idf' = [t \in DOMAIN idf \cup {Head(ix_todo)} |->
                          IF t = Head(ix_todo)
                          THEN IdfOf(Len(documents), doc_freqs[Head(ix_todo)])
                          ELSE idf[t]]
            /\ ix_todo' = Tail(ix_todo)
            /\ UNCHANGED ix_pc
       ELSE /\ ix_pc' = "idle"
            /\ UNCHANGED <<idf, ix_todo>>
    /\ UNCHANGED <<documents, tokenized_docs, doc_lengths, avg_doc_length, doc_freqs,
                   ix_i, ix_keys>>
    /\ IxOthers

\* what the retrieve thread leaves alone while its call goes on
CrGoesOn == UNCHANGED <<retrieverVars, callVars, ixVars, tpVars, apiVars, grVars, ccVars,
                        scVars, upVars, rtVars, alVars>>

\* the call of self.retrieve(query) ends: it raised, or returned a list
CrEnds(raised, value) ==
    /\ cr' = NoFrame
    /\ UNCHANGED cr_calls
    /\ last_op' = "retrieve"
    /\ last_query' = cr.query
    /\ last_top_k' = None
    /\ last_result' = [raised |-> raised, value |-> value]
    /\ UNCHANGED <<k1_arg, b_arg, last_arg, last_prior, retrieverVars, ixVars, tpVars, apiVars,
                   grVars, ccVars, scVars, upVars, rtVars, alVars>>

\* self.retrieve(query): retriever.py:122-129, up to range(len(self.documents))
CrCall(query) ==
    /\ cr.pc = "idle"
    /\ cr_calls < MaxRetrieveCalls
    /\ cr_calls' = cr_calls + 1
    /\ cr' = [NoFrame EXCEPT !.pc = "line129",
                             !.query = query,
                             !.query_tokens = tokenize(query),
                             !.n = Len(documents),
                             !.idx = 1]
    /\ CrGoesOn

\* retriever.py:129: the next idx of the range, or the end of the loop
CrNextPassage ==
    /\ cr.pc = "line129"
    /\ cr' = [cr EXCEPT !.pc = IF cr.idx <= cr.n THEN "line90" ELSE "line134"]
    /\ UNCHANGED cr_calls /\ CrGoesOn

\* retriever.py:90, doc_tokens = self.tokenized_docs[doc_idx]
CrReadTokens ==
    /\ cr.pc = "line90"
    /\ IF cr.idx > Len(tokenized_docs)
       THEN CrEnds(IndexError, <<>>)
       ELSE /\ cr' = [cr EXCEPT !.pc = "line91", !.doc_tokens = tokenized_docs[cr.idx]]
            /\ UNCHANGED cr_calls /\ CrGoesOn

\* retriever.py:91, doc_length = self.doc_lengths[doc_idx]
CrReadLength ==
    /\ cr.pc = "line91"
    /\ IF cr.idx > Len(doc_lengths)
       THEN CrEnds(IndexError, <<>>)
       ELSE /\ cr' = [cr EXCEPT !.pc = "line96", !.doc_length = doc_lengths[cr.idx],
                                !.j = 1, !.score = 0]
            /\ UNCHANGED cr_calls /\ CrGoesOn

\* retriever.py:96: the next token of the query, or the end of the loop, the
\* return of line 109 and the append of line 131
CrNextToken ==
    /\ cr.pc = "line96"
    /\ cr' = IF cr.j <= Len(cr.query_tokens)
             THEN [cr EXCEPT !.pc = "line97"]
             ELSE [cr EXCEPT !.pc = "line129",
                             !.scores = Append(@, [idx |-> cr.idx, score |-> cr.score]),
                             !.idx = @ + 1,
                             !.doc_tokens = <<>>, !.doc_length = 0, !.j = 0, !.score = 0]
    /\ UNCHANGED cr_calls /\ CrGoesOn

\* retriever.py:97-98, `if token not in self.idf: continue`
CrTestToken ==
    /\ cr.pc = "line97"
    /\ cr' = IF cr.query_tokens[cr.j] \notin DOMAIN idf
             THEN [cr EXCEPT !.pc = "line96", !.j = @ + 1]
             ELSE [cr EXCEPT !.pc = "line101"]
    /\ UNCHANGED cr_calls /\ CrGoesOn

\* retriever.py:101, idf_score = self.idf[token]
CrReadIdf ==
    /\ cr.pc = "line101"
    /\ IF cr.query_tokens[cr.j] \notin DOMAIN idf
       THEN CrEnds(KeyError, <<>>)
       ELSE /\ cr' = [cr EXCEPT !.pc = "line104", !.idf_score = idf[cr.query_tokens[cr.j]]]
            /\ UNCHANGED cr_calls /\ CrGoesOn

\* retriever.py:104-107: self.k1 and self.b never change, self.avg_doc_length
\* is read once
CrAddTerm ==
    /\ cr.pc = "line104"
    /\ LET term_freq == TermFreq(cr.doc_tokens, cr.query_tokens[cr.j])
           den == Denominator16(Self, term_freq, cr.doc_length)
       IN IF avg_doc_length.num = 0 \/ den = 0
          THEN CrEnds(ZeroDivisionError, <<>>)
          ELSE /\ cr' = [cr EXCEPT !.pc = "line96",
                                   !.score = @ + (cr.idf_score * Numerator16(Self, term_freq))
                                                     \div den,
                                   !.idf_score = 0,
                                   !.j = @ + 1]
               /\ UNCHANGED cr_calls /\ CrGoesOn

\* retriever.py:134-135, on the locals of the call
CrSort ==
    /\ cr.pc = "line134"
    /\ cr' = [cr EXCEPT !.pc = "line138",
                        !.top_results = Slice(SortDesc(cr.scores, 1, <<>>), TOP_K_RETRIEVAL),
                        !.scores = <<>>]
    /\ UNCHANGED cr_calls /\ CrGoesOn

\* retriever.py:138-141: self.documents[idx] for the next of top_results (the
\* comprehension reads self.documents for every element), or the return
CrReadDocument ==
    /\ cr.pc = "line138"
    /\ IF Len(cr.results) < Len(cr.top_results)
       THEN LET top == cr.top_results[Len(cr.results) + 1]
            IN IF top.idx > Len(documents)
               THEN CrEnds(IndexError, <<>>)
               ELSE /\ cr' = [cr EXCEPT !.results =
                                 Append(@, [doc |-> documents[top.idx], score |-> top.score])]
                    /\ UNCHANGED cr_calls /\ CrGoesOn
       ELSE CrEnds(OK, cr.results)

NextConc ==
    \/ \E docs \in ConcCollections : IxCall(docs)
    \/ IxTokenize
    \/ IxLengths
    \/ IxAverage
    \/ IxResetFreqs
    \/ IxNextPassage
    \/ IxCountToken
    \/ IxResetIdf
    \/ IxIdfToken
    \/ \E query \in ConcQueries : CrCall(query)
    \/ CrNextPassage
    \/ CrReadTokens
    \/ CrReadLength
    \/ CrNextToken
    \/ CrTestToken
    \/ CrReadIdf
    \/ CrAddTerm
    \/ CrSort
    \/ CrReadDocument

SpecConc == InitConc /\ [][NextConc]_vars

(***************************************************************************)
(* Claims about index_documents against a concurrent retrieve, under       *)
(* SpecConc.                                                               *)
(***************************************************************************)
\* C4: index_documents replaces documents, tokenized_docs, doc_lengths,
\* avg_doc_length, doc_freqs and idf in a single step: whenever a retrieve can
\* look, the six fields are those of one indexing call, the one before
\* (ix_prev) or the one under way (ix_arg).
C4_IndexSwapsAtomically == Self \in {FreshIndex(ix_prev), FreshIndex(ix_arg)}

\* a retrieve between two lines of index_documents gives what it would give
\* on the index before or on the index after
ConcurrentRetrieveSeesOneIndex ==
    last_op = "retrieve" =>
        last_result \in {retrieve(FreshIndex(ix_prev), last_query, last_top_k),
                         retrieve(FreshIndex(ix_arg), last_query, last_top_k)}

\* between calls the fields are those of the last call
IndexCompleteWhenIdle == ix_pc = "idle" => Self = FreshIndex(ix_arg)

(***************************************************************************)
(* Concurrent calls of retrieve on an index whose indexing has completed,  *)
(* one passage scored per step.                                            *)
(***************************************************************************)
\* BM25Retriever() and BM25Retriever(b=1.0)
ReadCtorArgs == {<<None, None>>, <<None, Some(4)>>}
\* "a", "B a"
ReadQueries == {<<"a">>, <<"B"," ","a">>}
ReadTopKArgs == {None, Some(1)}

InitRead ==
    /\ \E args \in ReadCtorArgs : k1_arg = args[1] /\ b_arg = args[2]
    /\ HasFields(NewRetriever(k1_arg, b_arg))
    /\ last_op = "init"
    /\ last_arg = <<>>
    /\ last_prior = <<>>
    /\ last_query = <<>>
    /\ last_top_k = None
    /\ last_result = NoResult
    /\ documents_shared = FALSE
    /\ IxIdle /\ CrIdle /\ ApiIdle /\ GrIdle /\ TpDefault /\ CcIdle /\ ScIdle /\ UpIdle /\ RtIdle

\* self.index_documents(docs) while no retrieve is under way
ReadIndexDocuments(docs) ==
    /\ \A r \in Readers : rt_pc[r] = "idle"
    /\ SetSelf(index_documents(Self, docs))
    /\ last_op' = "index_documents"
    /\ last_arg' = docs
    /\ rt_query' = [r \in Readers |-> <<>>]
    /\ rt_top_k' = [r \in Readers |-> None]
    /\ rt_result' = [r \in Readers |-> NoResult]
    /\ rt_calls' = [r \in Readers |-> 0]
    /\ documents_shared' = TRUE
    /\ UNCHANGED <<k1_arg, b_arg, last_prior, last_query, last_top_k, last_result, rt_pc,
                   rt_n, rt_idx, rt_scores, ixVars, tpVars, crVars, apiVars, grVars, ccVars, scVars, upVars>>

\* one list of scores for all the calls
AppendScoreShared(all_scores, r, entry) == [q \in Readers |-> Append(all_scores[q], entry)]

\* retriever.py:128 and 131: scores is a local of the call
AppendScore(all_scores, r, entry) == [all_scores EXCEPT ![r] = Append(@, entry)]

\* reader r calls self.retrieve(query, top_k): retriever.py:122-129
ReadCall(r, query, top_k) ==
    /\ rt_pc[r] = "idle"
    /\ rt_pc' = [rt_pc EXCEPT ![r] = "scoring"]
    /\ rt_query' = [rt_query EXCEPT ![r] = query]
    /\ rt_top_k' = [rt_top_k EXCEPT ![r] = top_k]
    /\ rt_n' = [rt_n EXCEPT ![r] = Len(documents)]
    /\ rt_idx' = [rt_idx EXCEPT ![r] = 1]
    /\ rt_scores' = [rt_scores EXCEPT ![r] = <<>>]
    /\ rt_result' = [rt_result EXCEPT ![r] = NoResult]
    /\ UNCHANGED <<rt_calls, retrieverVars, callVars, ixVars, tpVars, crVars, apiVars, grVars, ccVars, scVars, upVars,
                   alVars>>

\* reader r scores one passage, retriever.py:129-131; an exception ends the
\* call, and the locals of a call that ended are gone
ReadScore(r) ==
    /\ rt_pc[r] = "scoring"
    /\ rt_idx[r] <= rt_n[r]
    /\ LET score == calculate_bm25_score(Self, tokenize(rt_query[r]), rt_idx[r])
       IN IF score.raised # OK
          THEN /\ rt_pc' = [rt_pc EXCEPT ![r] = "idle"]
               /\ rt_result' = [rt_result EXCEPT ![r] = [raised |-> score.raised,
                                                         value |-> <<>>]]
               /\ rt_calls' = [rt_calls EXCEPT ![r] = 1]
               /\ rt_n' = [rt_n EXCEPT ![r] = 0]
               /\ rt_idx' = [rt_idx EXCEPT ![r] = 0]
               /\ rt_scores' = [rt_scores EXCEPT ![r] = <<>>]
          ELSE /\ rt_scores' = AppendScore(rt_scores, r,
                                           [idx |-> rt_idx[r], score |-> score.value])
               /\ rt_idx' = [rt_idx EXCEPT ![r] = @ + 1]
               /\ UNCHANGED <<rt_pc, rt_result, rt_calls, rt_n>>
    /\ UNCHANGED <<rt_query, rt_top_k, retrieverVars, callVars, ixVars, tpVars, crVars, apiVars, grVars,
                   ccVars, scVars, upVars, alVars>>

\* reader r sorts, cuts and returns: retriever.py:134-141
ReadReturn(r) ==
    /\ rt_pc[r] = "scoring"
    /\ rt_idx[r] > rt_n[r]
    /\ LET k == IF rt_top_k[r] = None THEN TOP_K_RETRIEVAL ELSE rt_top_k[r][1]
           top_results == Slice(SortDesc(rt_scores[r], 1, <<>>), k)
       IN rt_result' =
             [rt_result EXCEPT ![r] =
                 [raised |-> IF \A i \in DOMAIN top_results :
                                   top_results[i].idx <= Len(documents)
                             THEN OK ELSE IndexError,
                  value |-> IF \A i \in DOMAIN top_results :
                                  top_results[i].idx <= Len(documents)
                            THEN [i \in DOMAIN top_results |->
                                     [doc |-> documents[top_results[i].idx],
                                      score |-> top_results[i].score]]
                            ELSE <<>>]]
    /\ rt_pc' = [rt_pc EXCEPT ![r] = "idle"]
    /\ rt_calls' = [rt_calls EXCEPT ![r] = 1]
    /\ rt_n' = [rt_n EXCEPT ![r] = 0]
    /\ rt_idx' = [rt_idx EXCEPT ![r] = 0]
    /\ rt_scores' = [rt_scores EXCEPT ![r] = <<>>]
    /\ UNCHANGED <<rt_query, rt_top_k, retrieverVars, callVars, ixVars, tpVars, crVars, apiVars, grVars, ccVars,
                   scVars, upVars, alVars>>

NextRead ==
    \/ \E docs \in Collections : ReadIndexDocuments(docs)
    \/ \E r \in Readers, query \in ReadQueries, top_k \in ReadTopKArgs :
          ReadCall(r, query, top_k)
    \/ \E r \in Readers : ReadScore(r)
    \/ \E r \in Readers : ReadReturn(r)

SpecRead == InitRead /\ [][NextRead]_vars

(***************************************************************************)
(* Claims about concurrent retrieve calls, under SpecRead.                 *)
(***************************************************************************)
\* C16: retrieve and calculate_bm25_score are read-only: the fields stay
\* those that the last index_documents call gave them (k1 and b those of the
\* constructor), and every retrieve that ran interleaved with others returns
\* what the same call returns when it runs alone on that index.
C16_RetrieveIsReadOnly ==
    /\ Self = FreshIndex(last_arg)
    /\ \A r \in Readers :
          (rt_pc[r] = "idle" /\ rt_calls[r] > 0) =>
              rt_result[r] = retrieve(FreshIndex(last_arg), rt_query[r], rt_top_k[r])

\* reader 1 returned scored passages of a two-passage index while reader 2,
\* with another query, was between its first and its second passage
C16_Witness ==
    /\ Len(documents) = 2
    /\ rt_pc[1] = "idle"
    /\ rt_calls[1] > 0
    /\ rt_result[1].raised = OK
    /\ rt_result[1].value # <<>>
    /\ rt_result[1].value[1].score > 0
    /\ rt_pc[2] = "scoring"
    /\ rt_idx[2] = 2
    /\ rt_query[2] # rt_query[1]

\* no step of a retrieve assigns a field of the instance
ReadersLeaveIndexAlone ==
    [][(\E r \in Readers : rt_pc[r] # "idle" \/ rt_pc'[r] # "idle")
          => UNCHANGED retrieverVars]_vars

(***************************************************************************)
(* The caller keeps the list it passed to index_documents and changes it.  *)
(* self.documents is that same list (retriever.py:58), so it changes too;  *)
(* the other fields were built from its content at index time.             *)
(***************************************************************************)
\* P.append(passage)
CallerAppends(passage) ==
    /\ documents_shared
    /\ Len(documents) < MaxDocs
    /\ documents' = Append(documents, passage)
    /\ UNCHANGED <<k1, b, tokenized_docs, doc_lengths, avg_doc_length, doc_freqs, idf,
                   callVars, ixVars, tpVars, crVars, apiVars, grVars, ccVars, scVars, upVars, rtVars, alVars>>

\* P.pop()
CallerRemoves ==
    /\ documents_shared
    /\ documents # <<>>
    /\ documents' = SubSeq(documents, 1, Len(documents) - 1)
    /\ UNCHANGED <<k1, b, tokenized_docs, doc_lengths, avg_doc_length, doc_freqs, idf,
                   callVars, ixVars, tpVars, crVars, apiVars, grVars, ccVars, scVars, upVars, rtVars, alVars>>

\* P[i] = passage
CallerReplaces(i, passage) ==
    /\ documents_shared
    /\ i \in DOMAIN documents
    /\ documents[i] # passage
    /\ documents' = [documents EXCEPT ![i] = passage]
    /\ UNCHANGED <<k1, b, tokenized_docs, doc_lengths, avg_doc_length, doc_freqs, idf,
                   callVars, ixVars, tpVars, crVars, apiVars, grVars, ccVars, scVars, upVars, rtVars, alVars>>

AliasQueries == {<<>>, <<"a">>, <<"B"," ","a">>}
AliasTopKArgs == {None, Some(1)}

NextAlias ==
    \/ \E docs \in SeqsUpTo(PassagePool, MaxDocs) : IndexDocuments(docs)
    \/ \E query \in AliasQueries, top_k \in AliasTopKArgs : Retrieve(query, top_k)
    \/ \E passage \in PassagePool : CallerAppends(passage)
    \/ CallerRemoves
    \/ \E i \in 1..MaxDocs, passage \in PassagePool : CallerReplaces(i, passage)

SpecAlias == Init /\ [][NextAlias]_vars

(***************************************************************************)
(* Claims about the caller's list, under SpecAlias.                        *)
(***************************************************************************)
\* C17: the passages are frozen when index_documents returns: whatever the
\* caller does to its list afterwards, documents and tokenized_docs keep the
\* same length, and retrieve does not raise IndexError and gives what it
\* gives on the index of the passages as they were indexed.
C17_PassagesFrozenAtIndexTime ==
    /\ Len(documents) = Len(tokenized_docs)
    /\ last_op = "retrieve" =>
          /\ last_result.raised # IndexError
          /\ last_result = retrieve(FreshIndex(last_arg), last_query, last_top_k)

\* every field but documents is frozen: it stays what indexing made of the
\* argument as it was at the call
DerivedFieldsFrozen ==
    [Self EXCEPT !.documents = last_arg] = FreshIndex(last_arg)

(***************************************************************************)
(* Indexing a collection again after a passage got more occurrences of a   *)
(* term.                                                                   *)
(***************************************************************************)
GrowCollections == SeqsUpTo(PassagePool, MaxDocs)

\* self.index_documents(docs) with a new collection
GrowIndexDocuments(docs) ==
    /\ SetSelf(index_documents(Self, docs))
    /\ last_op' = "index_documents"
    /\ last_arg' = docs
    /\ last_prior' = documents
    /\ last_query' = <<>>
    /\ last_top_k' = None
    /\ last_result' = NoResult
    /\ documents_shared' = TRUE
    /\ gr_doc' = 0
    /\ gr_term' = <<>>
    /\ gr_before' = <<>>
    /\ gr_added' = 0
    /\ UNCHANGED <<k1_arg, b_arg, ixVars, tpVars, crVars, apiVars, ccVars, scVars, upVars, rtVars>>

\* the score of every passage for the one-token query `term`
ScoresFor(self, term) ==
    [j \in DOMAIN self.documents |-> calculate_bm25_score(self, <<term>>, j)]

\* passage i, which holds `term`, gets one more occurrence of it at its end,
\* and self.index_documents is called with the collection so changed
AddOccurrence(i, term) ==
    /\ gr_added < MaxGrow
    /\ i \in DOMAIN documents
    /\ term \in Range(tokenized_docs[i])
    /\ LET docs == [documents EXCEPT ![i] = @ \o <<" ">> \o term]
       IN /\ SetSelf(index_documents(Self, docs))
          /\ last_arg' = docs
    /\ last_op' = "index_documents"
    /\ last_prior' = documents
    /\ last_query' = <<>>
    /\ last_top_k' = None
    /\ last_result' = NoResult
    /\ documents_shared' = TRUE
    /\ gr_doc' = i
    /\ gr_term' = term
    /\ gr_before' = ScoresFor(Self, term)
    /\ gr_added' = gr_added + 1
    /\ UNCHANGED <<k1_arg, b_arg, ixVars, tpVars, crVars, apiVars, ccVars, scVars, upVars, rtVars>>

NextGrow ==
    \/ \E docs \in GrowCollections : GrowIndexDocuments(docs)
    \/ \E i \in 1..MaxDocs, term \in {<<"a">>, <<"b">>} : AddOccurrence(i, term)

SpecGrow == Init /\ [][NextGrow]_vars

\* the passages that do not hold the term
GrOthers == {j \in DOMAIN tokenized_docs : gr_term \notin Range(tokenized_docs[j])}
GrAfter == ScoresFor(Self, gr_term)

\* C22: after a passage that holds t got a further occurrence of t and the
\* collection was indexed again, the passage's score for t is not below its
\* score before, while every passage without t scores for t what it scored
\* before (0 where it scores at all): the passage does not lose against them.
C22_MoreOccurrencesNeverScoreLower ==
    gr_doc # 0 =>
        /\ gr_before[gr_doc].raised = OK
        /\ GrAfter[gr_doc].raised = OK
        /\ GrAfter[gr_doc].value >= gr_before[gr_doc].value
        /\ \A j \in GrOthers :
              /\ GrAfter[j] = gr_before[j]
              /\ GrAfter[j].raised = OK =>
                    /\ GrAfter[j].value = 0
                    /\ GrAfter[gr_doc].value - GrAfter[j].value
                          >= gr_before[gr_doc].value - gr_before[j].value

\* a passage with t got a second further occurrence of t, next to a passage
\* without t that scores 0, and its score grew
C22_Witness ==
    /\ gr_doc # 0
    /\ gr_added = 2
    /\ TermFreq(tokenized_docs[gr_doc], gr_term) >= 3
    /\ GrAfter[gr_doc].value > gr_before[gr_doc].value
    /\ gr_before[gr_doc].value > 0
    /\ \E j \in GrOthers : GrAfter[j] = [raised |-> OK, value |-> 0]

(***************************************************************************)
(* The HTTP layer, app/routes/recipe_api.py: the handlers are coroutines   *)
(* without an await, so each runs to its end before the next starts.       *)
(***************************************************************************)
OSError == "OSError"
HTTP_200_OK == 200
HTTP_404_NOT_FOUND == 404
HTTP_500_INTERNAL_SERVER_ERROR == 500
NotInitialized == "Retriever is not initialized or no documents indexed"
NoRelevantRecipes == "No relevant recipes found"
\* what from_pretrained says when it cannot load: the text is the library's
LoadErrorText == "Can't load tokenizer for 'TinyLlama/TinyLlama-1.1B-Chat-v1.0'"

\* str(e) of what retrieve or get_or_init_llm raised: the index of a list, the
\* division by the float 0.0 of line 61, the loader
MessageOf(raised) ==
    CASE raised = IndexError -> "list index out of range"
      [] raised = ZeroDivisionError -> "float division by zero"
      [] raised = OSError -> LoadErrorText

\* recipe_api.py:121, f"Error processing query: {str(e)}"
ErrorProcessingQuery(raised) == "Error processing query: " \o MessageOf(raised)

\* text_processor.chunk_text(content): TextProcessor defines __init__,
\* clean_text, split_into_sentences, char_chunking and semantic_chunking, and
\* no chunk_text, so the attribute lookup raises
chunk_text(self, content) == [raised |-> AttributeError, value |-> <<>>]

\* startup_event, the try block: the retriever it leaves, or what it raises
StartupTry(file) ==
    LET fresh == NewRetriever(None, None)
    IN IF ~file.exists
       THEN [raised |-> OK, value |-> fresh]
       ELSE IF ~file.readable
            THEN [raised |-> OSError, value |-> fresh]
            ELSE LET chunks == chunk_text([chunk_size |-> DEFAULT_CHUNK_SIZE,
                                           overlap |-> DEFAULT_OVERLAP], file.content)
                 IN IF chunks.raised # OK
                    THEN [raised |-> chunks.raised, value |-> fresh]
                    ELSE IF chunks.value # <<>>
                         THEN [raised |-> OK, value |-> index_documents(fresh, chunks.value)]
                         ELSE [raised |-> OK, value |-> fresh]

\* startup_event: the retriever the handler leaves in the module global
startup_event(file) ==
    LET tried == StartupTry(file)
    IN IF tried.raised # OK THEN NewRetriever(None, None) ELSE tried.value

\* llm_manager.py:204-209, get_llm_manager; `loads` is whether TinyLlamaManager()
\* returns (line 45 raises when the model cannot be loaded)
get_llm_manager(instance, built, loads) ==
    IF instance = 0
    THEN IF loads
         THEN [raised |-> OK, value |-> built + 1, instance |-> built + 1, built |-> built + 1]
         ELSE [raised |-> OSError, value |-> 0, instance |-> 0, built |-> built]
    ELSE [raised |-> OK, value |-> instance, instance |-> instance, built |-> built]

\* every call constructs a TinyLlamaManager of its own
get_or_init_llm_constructs(manager, instance, built, loads) ==
    IF loads
    THEN [raised |-> OK, value |-> built + 1, manager |-> built + 1,
          instance |-> instance, built |-> built + 1]
    ELSE [raised |-> OSError, value |-> 0, manager |-> manager,
          instance |-> instance, built |-> built]

\* recipe_api.py:25-31, get_or_init_llm: what is returned or raised, and the
\* two globals and the number of managers after the call
get_or_init_llm(manager, instance, built, loads) ==
    IF manager = 0
    THEN LET got == get_llm_manager(instance, built, loads)
         IN [raised |-> got.raised, value |-> got.value,
             manager |-> IF got.raised = OK THEN got.value ELSE 0,
             instance |-> got.instance, built |-> got.built]
    ELSE [raised |-> OK, value |-> manager, manager |-> manager,
          instance |-> instance, built |-> built]

\* the files that Config.RAW_RECIPES_PATH can name: none, one that cannot be
\* read, an empty one, one of blanks, one with recipes
RecipeFiles ==
    {NoFile,
     [exists |-> TRUE, readable |-> FALSE, content |-> <<>>],
     [exists |-> TRUE, readable |-> TRUE, content |-> <<>>],
     [exists |-> TRUE, readable |-> TRUE, content |-> <<" ", "\n">>],
     [exists |-> TRUE, readable |-> TRUE, content |-> Carbonara],
     [exists |-> TRUE, readable |-> TRUE, content |-> RecipeText]}
\* what a caller of the module can index: [], ["a"], ["a", "B! b a"], [" !"]
ApiCollections ==
    {<<>>, <<<<"a">>>>, <<<<"a">>, <<"B","!"," ","b"," ","a">>>>, <<<<" ","!">>>>}
ApiQueries == {<<>>, <<"a">>, PastaEggs}
ApiTopKArgs == {None, Some(0), Some(MaxTopK)}

InitApi ==
    /\ k1_arg = None
    /\ b_arg = None
    /\ HasFields(NewRetriever(None, None))
    /\ last_op = "init"
    /\ last_arg = <<>>
    /\ last_prior = <<>>
    /\ last_query = <<>>
    /\ last_top_k = None
    /\ last_result = NoResult
    /\ documents_shared = FALSE
    /\ IxIdle /\ CrIdle /\ GrIdle /\ TpDefault /\ CcIdle /\ ScIdle /\ UpIdle /\ RtIdle
    /\ retriever = NoRetriever
    /\ llm_manager = 0
    /\ llm_manager_instance = 0
    /\ recipe_file \in RecipeFiles
    /\ started = FALSE
    /\ managers_built = 0
    /\ load_failures = 0
    /\ llm_handed = {}
    /\ response = NoResponse

\* the application starts: startup_event runs once
StartupEvent ==
    /\ ~started
    /\ started' = TRUE
    /\ retriever' = BM25RetrieverObject
    /\ SetSelf(startup_event(recipe_file))
    /\ response' = NoResponse
    /\ UNCHANGED <<llm_manager, llm_manager_instance, recipe_file, managers_built,
                   load_failures, llm_handed>>
    /\ UNCHANGED <<callVars, ixVars, tpVars, crVars, grVars, ccVars, scVars, upVars, rtVars, alVars>>

\* retriever.index_documents(docs) on the retriever of the module, by a caller
\* that imports it
IndexRecipes(docs) ==
    /\ retriever # NoRetriever
    /\ SetSelf(index_documents(Self, docs))
    /\ last_op' = "index_documents"
    /\ last_arg' = docs
    /\ last_prior' = documents
    /\ last_query' = <<>>
    /\ last_top_k' = None
    /\ last_result' = NoResult
    /\ documents_shared' = TRUE
    /\ response' = NoResponse
    /\ UNCHANGED <<retriever, llm_manager, llm_manager_instance, recipe_file, started,
                   managers_built, load_failures, llm_handed>>
    /\ UNCHANGED <<k1_arg, b_arg, ixVars, tpVars, crVars, grVars, ccVars, scVars, upVars, rtVars>>

\* the manager is left as it is
KeepLlm == UNCHANGED <<llm_manager, llm_manager_instance, managers_built, load_failures,
                       llm_handed>>

\* the globals after get_or_init_llm gave `got`
SetLlm(got, loads) ==
    /\ llm_manager' = got.manager
    /\ llm_manager_instance' = got.instance
    /\ managers_built' = got.built
    /\ load_failures' = IF got.raised = OK THEN load_failures ELSE load_failures + 1
    /\ llm_handed' = IF got.raised = OK THEN llm_handed \cup {got.value} ELSE llm_handed

\* whether this construction may fail
Loads == {TRUE} \cup (IF load_failures < MaxLoadFailures THEN {FALSE} ELSE {})

\* POST /recipe/query
QueryRecipe(query, top_k, loads) ==
    /\ IF retriever = NoRetriever \/ documents = <<>>
       THEN /\ response' = [handler |-> "query_recipe",
                            status |-> HTTP_500_INTERNAL_SERVER_ERROR,
                            detail |-> NotInitialized, llm |-> 0, body |-> <<>>]
            /\ KeepLlm
       ELSE LET retrieved == retrieve(Self, query, top_k)
            IN IF retrieved.raised # OK
               THEN /\ response' = [handler |-> "query_recipe",
                                    status |-> HTTP_500_INTERNAL_SERVER_ERROR,
                                    detail |-> ErrorProcessingQuery(retrieved.raised),
                                    llm |-> 0, body |-> <<>>]
                    /\ KeepLlm
               ELSE IF retrieved.value = <<>>
                    THEN /\ response' = [handler |-> "query_recipe",
                                         status |-> HTTP_404_NOT_FOUND,
                                         detail |-> NoRelevantRecipes, llm |-> 0, body |-> <<>>]
                         /\ KeepLlm
                    ELSE LET got == get_or_init_llm(llm_manager, llm_manager_instance,
                                                    managers_built, loads)
                         IN /\ SetLlm(got, loads)
                            /\ response' =
                                  IF got.raised # OK
                                  THEN [handler |-> "query_recipe",
                                        status |-> HTTP_500_INTERNAL_SERVER_ERROR,
                                        detail |-> ErrorProcessingQuery(got.raised),
                                        llm |-> 0,
                                        body |-> <<>>]
                                  ELSE [handler |-> "query_recipe", status |-> HTTP_200_OK,
                                        detail |-> "", llm |-> got.value,
                                        body |-> retrieved.value]
    /\ UNCHANGED <<retriever, recipe_file, started>>
    /\ UNCHANGED <<retrieverVars, callVars, ixVars, tpVars, crVars, grVars, ccVars, scVars, upVars,
                   rtVars, alVars>>

\* GET /recipe/stats: total_chunks and indexed_tokens in the body, the device
\* of the manager when llm_manager is set
GetStats ==
    /\ LET got == IF llm_manager # 0
                  THEN get_or_init_llm(llm_manager, llm_manager_instance, managers_built, TRUE)
                  ELSE [raised |-> OK, value |-> 0, manager |-> llm_manager,
                        instance |-> llm_manager_instance, built |-> managers_built]
       IN /\ response' = [handler |-> "get_stats", status |-> HTTP_200_OK, detail |-> "",
                          llm |-> got.value,
                          body |-> IF retriever = NoRetriever
                                   THEN <<0, 0>>
                                   ELSE <<Len(documents), Cardinality(DOMAIN idf)>>]
          /\ llm_manager' = got.manager
          /\ llm_manager_instance' = got.instance
          /\ managers_built' = got.built
          /\ llm_handed' = IF got.value # 0 THEN llm_handed \cup {got.value} ELSE llm_handed
    /\ UNCHANGED <<retriever, recipe_file, started, load_failures>>
    /\ UNCHANGED <<retrieverVars, callVars, ixVars, tpVars, crVars, grVars, ccVars, scVars, upVars,
                   rtVars, alVars>>

\* GET /model/info
GetModelInfo(loads) ==
    /\ LET got == get_or_init_llm(llm_manager, llm_manager_instance, managers_built, loads)
       IN /\ SetLlm(got, loads)
          /\ response' =
                IF got.raised # OK
                THEN [handler |-> "get_model_info", status |-> HTTP_500_INTERNAL_SERVER_ERROR,
                      detail |-> OSError, llm |-> 0, body |-> <<>>]
                ELSE [handler |-> "get_model_info", status |-> HTTP_200_OK, detail |-> "",
                      llm |-> got.value, body |-> <<>>]
    /\ UNCHANGED <<retriever, recipe_file, started>>
    /\ UNCHANGED <<retrieverVars, callVars, ixVars, tpVars, crVars, grVars, ccVars, scVars, upVars,
                   rtVars, alVars>>

NextApi ==
    \/ StartupEvent
    \/ \E docs \in ApiCollections : IndexRecipes(docs)
    \/ \E query \in ApiQueries, top_k \in ApiTopKArgs, loads \in Loads :
          QueryRecipe(query, top_k, loads)
    \/ GetStats
    \/ \E loads \in Loads : GetModelInfo(loads)

SpecApi == InitApi /\ [][NextApi]_vars

\* the index holds no passage: it was never built, or built from nothing
EmptyIndex == retriever = NoRetriever \/ documents = <<>>

\* C23: query_recipe answers a request made of an empty or never populated
\* index with 404 'No relevant recipes found', not with a 500.
C23_EmptyIndexAnswers404 ==
    (response.handler = "query_recipe" /\ EmptyIndex) =>
        /\ response.status = HTTP_404_NOT_FOUND
        /\ response.detail = NoRelevantRecipes

\* the 404 is kept for a populated index that returns nothing, and an index
\* without passages is answered with the 500 of lines 81-85
EmptyIndexAnswers500 ==
    response.handler = "query_recipe" =>
        /\ EmptyIndex =>
              /\ response.status = HTTP_500_INTERNAL_SERVER_ERROR
              /\ response.detail = NotInitialized
        /\ response.status = HTTP_404_NOT_FOUND => ~EmptyIndex

\* the file exists, can be read and holds more than blanks
HasText(file) == file.exists /\ file.readable /\ Strip(file.content) # <<>>
\* startup_event has run and nothing has been indexed since
JustStarted == started /\ last_op = "init"

\* C24: after startup_event the module's retriever is a BM25Retriever in every
\* case, and when the recipe file holds text it has a non-empty index built
\* from the file, so query_recipe does not answer 'Retriever is not
\* initialized or no documents indexed'.
C24_StartupIndexesTheRecipeFile ==
    /\ started => retriever = BM25RetrieverObject
    /\ (JustStarted /\ HasText(recipe_file)) =>
          /\ documents # <<>>
          /\ Len(tokenized_docs) = Len(documents)
          /\ response.handler = "query_recipe" => response.detail # NotInitialized

\* startup always leaves a BM25Retriever, which holds no passage whatever the
\* file is
StartupLeavesAnEmptyRetriever ==
    /\ started => retriever = BM25RetrieverObject
    /\ JustStarted => Self = NewRetriever(None, None)

\* C30: whatever requests query_recipe, get_stats and get_model_info have
\* handled, at most one TinyLlamaManager was constructed, both module globals
\* name it once it exists, and every handler that got a manager got that one.
C30_OneLlmManager ==
    /\ managers_built <= 1
    /\ llm_manager_instance \in {0, managers_built}
    /\ llm_manager \in {0, llm_manager_instance}
    /\ llm_handed \subseteq {llm_manager_instance} \ {0}
    /\ Cardinality(llm_handed) <= 1
    /\ response.llm # 0 => response.llm = llm_manager_instance
    /\ (response.status = HTTP_200_OK /\ response.handler \in {"query_recipe", "get_model_info"})
          => (response.llm # 0 /\ response.llm = llm_manager)

\* a load failed, a later request built the manager, and query_recipe answered
\* a later request with that manager
C30_Witness ==
    /\ load_failures >= 1
    /\ managers_built = 1
    /\ llm_manager = 1
    /\ llm_manager_instance = 1
    /\ llm_handed = {1}
    /\ response.handler = "query_recipe"
    /\ response.status = HTTP_200_OK
    /\ response.llm = 1
    /\ Len(response.body) = 2

\* get_stats reports the manager only when one exists, and builds none
StatsBuildsNoManager ==
    [][GetStats => (managers_built' = managers_built /\ llm_manager' = llm_manager)]_vars

(***************************************************************************)
(* index_documents with a passage that is no string.                       *)
(***************************************************************************)
\* a passage that is an int (7), not a str
NotAString == <<"<int>">>
\* retriever.py:45, text.lower() exists for a str only
IsStr(text) == text # NotAString

\* BM25Retriever.index_documents: what the call raises and the fields it
\* leaves.  Line 58 binds self.documents before line 59 tokenizes the passages
\* one by one and raises at the first that has no lower().
try_index_documents(self, docs) ==
    IF \E i \in DOMAIN docs : ~IsStr(docs[i])
    THEN [raised |-> AttributeError, self |-> [self EXCEPT !.documents = docs]]
    ELSE [raised |-> OK, self |-> index_documents(self, docs)]

FailCollections == SeqsUpTo({<<"a">>, <<"B","!"," ","b"," ","a">>, NotAString}, MaxDocs)
FailQueries == {<<"a">>, <<"B"," ","a">>}
FailTopKArgs == {None, Some(1)}

\* self.index_documents(docs), which may raise
TryIndexDocuments(docs) ==
    /\ LET tried == try_index_documents(Self, docs)
       IN /\ SetSelf(tried.self)
          /\ last_result' = [raised |-> tried.raised, value |-> <<>>]
    /\ last_op' = "index_documents"
    /\ last_arg' = docs
    /\ last_prior' = documents
    /\ last_query' = <<>>
    /\ last_top_k' = None
    /\ documents_shared' = TRUE
    /\ UNCHANGED <<k1_arg, b_arg, ixVars, tpVars, crVars, apiVars, grVars, ccVars, scVars, upVars, rtVars>>

NextFail ==
    \/ \E docs \in FailCollections : TryIndexDocuments(docs)
    \/ \E query \in FailQueries, top_k \in FailTopKArgs : Retrieve(query, top_k)

SpecFail == Init /\ [][NextFail]_vars

\* the step is a call of index_documents that raised
IndexingFailed == last_op' = "index_documents" /\ last_result'.raised # OK

\* C28: a call of index_documents that raises leaves documents,
\* tokenized_docs, doc_lengths, doc_freqs and idf as they were, documents and
\* tokenized_docs of one length, and every retrieve giving what it gave before.
C28_FailedIndexingChangesNothing ==
    [][IndexingFailed =>
          /\ Self' = Self
          /\ Len(documents') = Len(tokenized_docs')
          /\ \A query \in FailQueries, top_k \in FailTopKArgs :
                retrieve(Self', query, top_k) = retrieve(Self, query, top_k)
      ]_vars

\* what the failed call does leave: the new list in documents, over the
\* tokens, lengths, frequencies and idf of the old one
FailedIndexingReplacesDocumentsOnly ==
    [][IndexingFailed =>
          /\ documents' = last_arg'
          /\ [Self' EXCEPT !.documents = documents] = Self
      ]_vars

====
